---------------------------- MODULE Spec2Model ----------------------------
(***************************************************************************)
(* A model of the turbodrone ground station (backend/):                    *)
(*   - the control pipeline: FlightController._control_loop, the axis      *)
(*     entry points and the one-shot flags of the RC models, as encoded    *)
(*     by the protocol adapters (specification Spec);                      *)
(*   - utils/dropping_queue.py (specification SpecQueue);                  *)
(*   - the stick models and control strategies (SpecStick, SpecDecay);     *)
(*   - the video supervisor services/video_receiver.py with the family B   *)
(*     shared socket (SpecSup);                                            *)
(*   - the family B video adapter wifi_uav_video_protocol.py (SpecVideoB). *)
(* Each specification moves only the variables of its own component; the   *)
(* others keep their initial values.                                       *)
(*                                                                         *)
(* Floating point values are modelled in fixed point: a raw stick value is *)
(* an integer number of 1/Scale raw units, a normalised stick input is in  *)
(* thousandths, dt is in centiseconds; every formula is evaluated with one *)
(* final integer division.                                                 *)
(***************************************************************************)
EXTENDS Integers, Sequences, FiniteSets, TLC

(***************************************************************************)
(* Bounds of the model.                                                    *)
(***************************************************************************)
MaxAxisCalls == 2      \* set_axes_from calls in one behaviour
MaxSetCalls == 1       \* calls of each one-shot setter in one behaviour
QMaxSize == 2          \* maxsize of the DroppingQueue under test
MaxPuts == 5           \* put calls in one behaviour
Scale == 10            \* fixed point: steps per raw stick unit
MaxGen == 3            \* video transports constructed in one behaviour
MaxFrag == 1           \* largest fragment index a datagram carries
MaxDatagrams == 4      \* video datagrams received in one behaviour
MaxWatchdogDrops == 1  \* frames the watchdog gives up on in one behaviour
MaxChunks == 3         \* fragments fed to one reassembler in one behaviour
MaxTicks == 2          \* model.update calls in one behaviour of SpecStick
MaxEncInputs == 2      \* changes made to the model read by an encoder
MaxBuilds == 3         \* family B control packets built in one behaviour
SatMargin == 50        \* raw units below 0 and above 255 an axis attribute takes
MaxReqSteps == 5       \* datagrams and watchdog timeouts of one family B adapter
MaxRaceDatagrams == 2  \* datagrams the receive thread handles while racing the watchdog
MaxRaceTimeouts == 8   \* timeouts the watchdog acts on while racing the receive thread
MaxBeats == 3          \* heartbeats counted before the count stops growing
MaxOutageOpens == 12   \* reopen attempts counted within one outage
MaxFlagCalls == 2      \* setter calls against the family C encoder
MaxFlagBuilds == 2     \* packets the family C encoder builds
MaxSockCalls == 4      \* set_socket and stop calls on the family B RC adapter
MaxAdapters == 2       \* adapters the receiver loop constructs
MaxSvcCalls == 3       \* start() and stop() calls on the video service
MaxSvFid == 2          \* frame ids an adapter moves through
MaxPluginStarts == 2   \* plugin starts requested
MaxAxesMsgs == 3       \* frontend axes messages

\* MAX_RECONNECT_ATTEMPTS: Final = 10
MAX_RECONNECT_ATTEMPTS == 10

Min(a, b) == IF a < b THEN a ELSE b
Max(a, b) == IF a > b THEN a ELSE b

VARIABLES
  \* ---- control pipeline (flight_controller.py, s2x_rc.py, s2x_rc_protocol_adapter.py)
  dirs,         \* FlightController.{throttle,yaw,pitch,roll}_dir, each [val, by]
  oneShot,      \* the model's takeoff_flag, land_flag, stop_flag
  loopPc,       \* position of the control thread in _control_loop
  snap,         \* the dict under construction for model.update (line 104)
  pktFlags,     \* byte 6 of the packet under construction (set of flag names)
  wr,           \* the thread inside set_axes_from: [pc, val, id]
  updArgs,      \* the dict last passed to model.update
  lastSend,     \* outcome of the last send_control_packet
  nAxisCalls,   \* set_axes_from calls begun so far
  setCalls,     \* per flag: setter calls made so far
  emitted,      \* per flag: packets built with the flag's bit set
  startedAfter, \* per flag: a tick has started since the last setter call
  fullTicks,    \* per flag: ticks started and finished since the last setter call
  \* ---- DroppingQueue (utils/dropping_queue.py)
  q,            \* Queue.queue, the deque of items
  mutex,        \* Queue.mutex: "free" or the thread holding it
  prodPc,       \* per producer: position inside put
  prodItem,     \* per producer: the item being put
  consPc,       \* per consumer: position inside get
  unfinished,   \* Queue.unfinished_tasks
  nPut,         \* put calls begun so far
  burst,        \* the items enqueued since the last get, oldest first
  drained,      \* the items dequeued since the last put, oldest first
  \* ---- stick model (models/base_rc.py, wifi_uav_rc.py, cooingdv_rc.py, control/strategies.py)
  fam,          \* which RC model: "B" WifiUavRcModel, "C" CooingdvRcModel
  strategy,     \* model.strategy: "Incremental" or "Direct"
  profile,      \* model.profile.name
  axisVal,      \* model.throttle / yaw / pitch / roll, in 1/Scale raw units
  lastDir,      \* model.last_<axis>_dir, in thousandths
  startVal,     \* the axis values the behaviour started from
  nTicks,       \* model.update calls so far
  \* ---- video supervisor and the shared socket (services/video_receiver.py,
  \*      protocols/*_video_protocol.py, wifi_uav_rc_protocol_adapter.py)
  vfam,         \* drone family of the video adapter: "A" s2x, "B" wifi_uav
  svcRunning,   \* VideoReceiverService._running (the Event)
  supPc,        \* position of _receiver_loop
  gen,          \* adapters constructed so far; adapter g owns socket g
  protoSock,    \* socket of self.protocol, 0 when self.protocol is None
  protoRunning, \* adapter._running
  rxAlive,      \* adapter._rx_thread.is_alive()
  closed,       \* the sockets that have been closed (socket 0 is the RC adapter's own)
  rcSock,       \* WifiUavRcProtocolAdapter.sock
  rcShared,     \* WifiUavRcProtocolAdapter._is_shared_sock
  silence,      \* seconds since the running adapter last received a datagram
  rcLast,       \* the last send_control_packet: socket used, result, adapter running then
  rcDrops,      \* the closed sockets on which a send was dropped
  polls,        \* parity of the get_frame calls of the frame loop
  \* ---- family B video adapter (protocols/wifi_uav_video_protocol.py)
  currentFid,   \* _current_fid
  fragments,    \* keys of _fragments: the fragment indices stored for _current_fid
  retryCnt,     \* _retry_cnt
  hadRetry,     \* _had_retry
  lastReq,      \* frame id of the last _send_frame_request
  frameQ,       \* _frame_q: frame ids waiting for get_frame, oldest first
  lastFrame,    \* the last frame handle_payload returned: its id, the fragment
                \* indices it was built from, the index of its last-fragment datagram
  delivered,    \* ids of the last two frames put on the service's frame queue
  nDatagrams,   \* datagrams received so far
  wdDrops,      \* frames the watchdog has given up on so far
  rxPc,         \* _rx_loop: "recv", or "put_wait" inside _frame_q.put(frame, timeout=0.2)
  pending,      \* the frame id _rx_loop is trying to put, -1 when none
  discarded,    \* which frame the adapter queue discarded last: "none", "newest", "oldest"
  fidRetries,   \* watchdog re-requests since _current_fid last changed
  \* ---- the reassemblers at byte level (models/s2x_video_model.py,
  \*      protocols/wifi_uav_video_protocol.py, models/wifi_uav_video_model.py)
  asmKind,      \* which reassembler: "s2x", "adapterB", "modelB"
  asmCur,       \* _cur_fid / _current_fid / _current_frame_id, -1 for None
  asmFrags,     \* _frags / _fragments: fragment index -> payload, Absent when not stored
  asmExpected,  \* WifiUavVideoModel._expected_fragments, -1 for None
  asmOut,       \* the last VideoFrame returned: frame id and data
  asmDup,       \* what the last arrival of an already stored index did: "none", "kept", "replaced"
  nChunks,      \* fragments ingested so far
  asmIn,        \* the arguments of the last ingest call: [fid, k, payload]
  asmRet,       \* what the last ingest call returned, NoData for None
  asmDropped,   \* frames_dropped, as far as the reassembler's code counts it
  asmHdr,       \* family A: length and first two bytes of the last datagram
  \* ---- one video adapter and its worker threads (protocols/s2x_video_protocol.py,
  \*      protocols/wifi_uav_video_protocol.py)
  wkFam,        \* the adapter's family, "A" or "B"
  wkPhase,      \* "new", "constructed", "started", "stopped" (stop() has returned)
  wkRunning,    \* the adapter's _running flag / event
  wkFirstFrame, \* _first_frame (family B)
  wkQueued,     \* frames waiting in _frame_q
  wkThreads,    \* the live worker threads: "rx", "watchdog", "warmup", "keepalive"
  wkKaStop,     \* _keepalive_stop is set (family A)
  wkBeat,       \* parity of the warm-up loop's iterations
  \* ---- shutdown of one session (main.py, web_server.py, flight_controller.py,
  \*      the RC protocol adapters)
  shHost,       \* "cli" (main.py) or "web" (web_server.py lifespan)
  shFam,        \* the RC adapter's family: "A", "B", "C"
  shVideo,      \* a VideoReceiverService was created
  shPath,       \* "none" while the session runs, then "signal", "cli_exit", "lifespan"
  shTodo,       \* the statements of the shutdown path still to execute
  shLog,        \* the stop() calls made so far, in order: "video", "control"
  rcOwnOpen,    \* the socket the RC adapter created in its constructor is open
  rcIsShared,   \* the RC adapter's _is_shared_sock (family B)
  fcRunning,    \* FlightController.running
  fcStopped,    \* FlightController.stop() has returned
  clPc,         \* _control_loop: "top", "update", "build", "send", "sleep", "exited"
  clFresh,      \* model.update has run in the current iteration
  clRaised,     \* build or send raised in the current iteration
  clPrevRaised, \* build or send raised in the iteration before
  \* ---- the control packet encoders (protocols/s2x_rc_protocol_adapter.py,
  \*      protocols/cooingdv_rc_protocol_adapter.py)
  encFam,       \* the encoder's family, "A" or "C"
  encAxes,      \* the model's roll, pitch, throttle, yaw, in 1/Scale raw units
  encFlagSet,   \* the model's flags that are True
  encRecord,    \* the model's record_state (family A)
  encPkt,       \* the last packet build_control_packet returned, <<>> when none
  encFrom,      \* the model state that packet was built from
  encInputs,    \* changes made to the model since construction
  \* ---- the family B control encoder and its sender
  \*      (protocols/wifi_uav_rc_protocol_adapter.py, models/wifi_uav_rc.py)
  ebStart,      \* _ctr1 when the behaviour starts: 0 at construction, or shortly before the wrap
  ebCtr,        \* <<_ctr1, _ctr2, _ctr3>>
  ebAxis,       \* the model's roll, pitch, throttle and yaw (one value), raw units
  ebFlags,      \* the model's flags that are True
  ebPc,         \* the control loop: "build" or "send"
  ebPkt,        \* the packet build_control_packet returned last, <<>> when none
  ebBuilt,      \* packets built so far
  ebEmitted,    \* the packets sendto has transmitted: their counters and command byte
  ebCarried,    \* the one-shot flags that were True when ebPkt was built
  ebLost,       \* one-shot flags cleared by a build whose packet was not transmitted
  ebUnconveyed, \* one-shot flags cleared by a build whose command byte was another flag's
  \* ---- axis bytes of the three control encoders (protocols/*_rc_protocol_adapter.py)
  satFam,       \* which encoder: "A" s2x, "B" wifi_uav, "C" cooingdv
  satRaw,       \* the model's axis attribute, in 1/Scale raw units
  satByte,      \* the axis byte the encoder wrote, -1 before it ran
  \* ---- family B frame requests (protocols/wifi_uav_video_protocol.py)
  rqFid,        \* _current_fid
  rqFrags,      \* keys of _fragments
  rqRetry,      \* _retry_cnt
  rqHadRetry,   \* _had_retry
  rqDropped,    \* frames_dropped
  rqAttempts,   \* retry_attempts
  rqSent,       \* the datagrams the last step passed to sendto, in order
  rqRet,        \* frame id of the frame the last handle_payload returned, -1 for None
  rqStep,       \* the last step: "none", "rx", "retry", "drop"
  rqSteps,      \* steps taken so far
  rqOk,         \* frames_ok
  rqRxTs,       \* _last_rx_ts, as the number of the step that set it
  rqReqTs,      \* _last_req_ts, as the number of the step that set it
  rqHdr,        \* length and byte 1 of the last datagram handle_payload got
  \* ---- family B adapter, receive thread against watchdog, one statement per
  \*      step (protocols/wifi_uav_video_protocol.py)
  rbFid,        \* _current_fid
  rbFrags,      \* keys of _fragments
  rbRetry,      \* _retry_cnt
  rbHadRetry,   \* _had_retry
  rbOk,         \* frames_ok
  rbDropped,    \* frames_dropped
  rbAttempts,   \* retry_attempts
  rbSuccesses,  \* retry_successes
  rbRxPc,       \* the receive thread's position in handle_payload
  rbRxD,        \* the datagram handle_payload is processing
  rbRxTmp,      \* the value the receive thread loaded for an augmented assignment
  rbWdPc,       \* the watchdog's position in its loop body
  rbWdTmp,      \* the value the watchdog loaded for an augmented assignment
  rbRxN,        \* datagrams handed to handle_payload so far
  rbWdN,        \* watchdog timeouts so far
  \* ---- family C RC adapter and its heartbeat thread
  \*      (protocols/cooingdv_rc_protocol_adapter.py)
  hbPhase,      \* stop(): "running", "flagged" (flags set), "joined", "stopped" (returned)
  hbRunning,    \* _heartbeat_running
  hbStopEv,     \* _heartbeat_stop.is_set()
  hbPc,         \* the heartbeat thread: "check", "send", "wait", "exited"
  hbSockOpen,   \* self.sock has not been closed
  hbBeat,       \* flips with every heartbeat handed to the socket
  hbBeats,      \* heartbeats handed to the socket so far, up to MaxBeats
  hbLate,       \* a heartbeat was handed to the socket after stop() returned
  hbLoop,       \* the control loop: "unstarted", "running", "stopped"
  hbCtlSend,    \* the control loop's last send_control_packet: "none", "sent", "failed"
  \* family C video transport (RTSP): the receive loop and its reconnects
  cvPhase,       \* "new", "running", "stopping", "stopped": start() / stop()
  cvRunning,     \* self._running
  cvCap,         \* self._cap: "none" or "open"
  cvPc,          \* position of the receive thread
  cvFrom,        \* which call site of _reconnect is being served
  cvAttempt,     \* the for-loop variable of _reconnect
  cvStreamUp,    \* whether the drone's RTSP stream can be opened and read
  cvOpens,       \* reopen attempts since the stream last became unavailable
  \* family C encoder running in the control thread against setter calls
  fcFlags,       \* the model flags that are True
  fcPc,          \* "idle", "read", "clear", "done": build_control_packet
  fcIdx,         \* which flag _build_flags reads, or the build clears, next
  fcAcc,         \* the flags whose bit _build_flags has ORed in
  fcPkt,         \* the packet the last build returned
  fcBuilds,      \* builds started
  fcCalls,       \* setter calls made
  fcAtStart,     \* the flags that were True when the build began
  fcTouched,     \* the flags whose setter ran while the build was under way
  fcArmed,       \* one-shot flags set by a call and read by no build yet
  fcRepeat,      \* a build read a one-shot flag as set with no new call for it
  fcDue,         \* fcArmed as it was when the build began
  \* family B RC adapter: which socket it holds and which it closes
  skSock,        \* self.sock: "own" or a video transport's socket
  skIsShared,    \* self._is_shared_sock
  skSetPc,       \* position inside set_socket (video supervisor thread)
  skArg,         \* the socket set_socket was called with
  skStopPc,      \* position inside stop() (shutdown thread)
  skRcClosed,    \* sockets the RC adapter has called close() on
  skVideoClosed, \* sockets a video transport has closed in its stop()
  skCalls,       \* calls of set_socket and stop begun
  skOverlap,     \* a call began while the other thread was inside its call
  \* VideoReceiverService: start(), stop() and the receiver loop thread
  svRunning,     \* self._running (the event)
  svPc,          \* position of the receiver loop thread; "none" before start
  svProtocol,    \* self.protocol: 0 for None, else the adapter's number
  svGen,         \* adapters constructed so far
  svStarted,     \* adapters whose start() was called
  svStopped,     \* adapters whose stop() was called
  svUp,          \* the current adapter's is_running()
  svFid,         \* the current adapter's _current_fid
  svFrags,       \* the current adapter's number of stored fragments
  svStopPc,      \* position of the caller inside stop(); "idle" outside
  svCalls,       \* start() and stop() calls made
  svWanted,      \* the last call was start(): the service is meant to run
  svRaced,       \* stop() found self.protocol None while one was being built
  \* plugin manager, the test_yaw plugin and the frontend web socket
  pgPool,        \* "test_yaw" is a key of PluginManager._pool
  pgRunning,     \* the plugin instance's running attribute
  pgStopped,     \* the plugin instance's _stopped attribute
  pgThread,      \* the plugin's worker thread: "none", "run", "done"
  pgElapsed,     \* the plugin's duration has elapsed
  pgSource,      \* who last wrote the axes through the flight controller
  pgFront,       \* what became of the last frontend axes message
  pgFrontRunning, \* whether the plugin was running when that message came
  pgStarts,      \* plugin starts requested
  pgMsgs         \* frontend axes messages received

ctlVars == <<dirs, oneShot, loopPc, snap, pktFlags, wr, updArgs, lastSend,
             nAxisCalls, setCalls, emitted, startedAfter, fullTicks>>

qVars == <<q, mutex, prodPc, prodItem, consPc, unfinished, nPut, burst, drained>>

stickVars == <<fam, strategy, profile, axisVal, lastDir, startVal, nTicks>>

supVars == <<vfam, svcRunning, supPc, gen, protoSock, protoRunning, rxAlive,
             closed, rcSock, rcShared, silence, rcLast, rcDrops, polls>>

vidVars == <<currentFid, fragments, retryCnt, hadRetry, lastReq, frameQ,
             lastFrame, delivered, nDatagrams, wdDrops, rxPc, pending, discarded,
             fidRetries>>

asmVars == <<asmKind, asmCur, asmFrags, asmExpected, asmOut, asmDup, nChunks,
            asmIn, asmRet, asmDropped, asmHdr>>

wkVars == <<wkFam, wkPhase, wkRunning, wkFirstFrame, wkQueued, wkThreads, wkKaStop, wkBeat>>

shVars == <<shHost, shFam, shVideo, shPath, shTodo, shLog, rcOwnOpen, rcIsShared,
            fcRunning, fcStopped, clPc, clFresh, clRaised, clPrevRaised>>

encVars == <<encFam, encAxes, encFlagSet, encRecord, encPkt, encFrom, encInputs>>

ebVars == <<ebStart, ebCtr, ebAxis, ebFlags, ebPc, ebPkt, ebBuilt, ebEmitted, ebCarried, ebLost, ebUnconveyed>>

satVars == <<satFam, satRaw, satByte>>

rqVars == <<rqFid, rqFrags, rqRetry, rqHadRetry, rqDropped, rqAttempts, rqSent, rqRet, rqStep, rqSteps,
           rqOk, rqRxTs, rqReqTs, rqHdr>>

rbVars == <<rbFid, rbFrags, rbRetry, rbHadRetry, rbOk, rbDropped, rbAttempts, rbSuccesses, rbRxPc, rbRxD, rbRxTmp, rbWdPc, rbWdTmp, rbRxN, rbWdN>>

hbVars == <<hbPhase, hbRunning, hbStopEv, hbPc, hbSockOpen, hbBeat, hbBeats, hbLate, hbLoop, hbCtlSend>>

cvVars == <<cvPhase, cvRunning, cvCap, cvPc, cvFrom, cvAttempt, cvStreamUp, cvOpens>>

fcVars == <<fcFlags, fcPc, fcIdx, fcAcc, fcPkt, fcBuilds, fcCalls, fcAtStart, fcTouched, fcArmed, fcRepeat, fcDue>>

skVars == <<skSock, skIsShared, skSetPc, skArg, skStopPc, skRcClosed, skVideoClosed, skCalls, skOverlap>>

svVars == <<svRunning, svPc, svProtocol, svGen, svStarted, svStopped, svUp, svFid, svFrags, svStopPc, svCalls, svWanted, svRaced>>

pgVars == <<pgPool, pgRunning, pgStopped, pgThread, pgElapsed, pgSource, pgFront, pgFrontRunning, pgStarts, pgMsgs>>

vars == <<ctlVars, qVars, stickVars, supVars, vidVars, asmVars, wkVars, shVars, encVars, ebVars, satVars, rqVars, rbVars, hbVars, cvVars, fcVars, skVars, svVars, pgVars>>

\* What an action of one component leaves alone: the other components.
CtlOnly == UNCHANGED <<qVars, stickVars, supVars, vidVars, asmVars, wkVars, shVars, encVars, ebVars, satVars, rqVars, rbVars, hbVars, cvVars, fcVars, skVars, svVars, pgVars>>
QOnly == UNCHANGED <<ctlVars, stickVars, supVars, vidVars, asmVars, wkVars, shVars, encVars, ebVars, satVars, rqVars, rbVars, hbVars, cvVars, fcVars, skVars, svVars, pgVars>>
StickOnly == UNCHANGED <<ctlVars, qVars, supVars, vidVars, asmVars, wkVars, shVars, encVars, ebVars, satVars, rqVars, rbVars, hbVars, cvVars, fcVars, skVars, svVars, pgVars>>
SupOnly == UNCHANGED <<ctlVars, qVars, stickVars, vidVars, asmVars, wkVars, shVars, encVars, ebVars, satVars, rqVars, rbVars, hbVars, cvVars, fcVars, skVars, svVars, pgVars>>
VidOnly == UNCHANGED <<ctlVars, qVars, stickVars, supVars, asmVars, wkVars, shVars, encVars, ebVars, satVars, rqVars, rbVars, hbVars, cvVars, fcVars, skVars, svVars, pgVars>>
AsmOnly == UNCHANGED <<ctlVars, qVars, stickVars, supVars, vidVars, wkVars, shVars, encVars, ebVars, satVars, rqVars, rbVars, hbVars, cvVars, fcVars, skVars, svVars, pgVars>>
WkOnly == UNCHANGED <<ctlVars, qVars, stickVars, supVars, vidVars, asmVars, shVars, encVars, ebVars, satVars, rqVars, rbVars, hbVars, cvVars, fcVars, skVars, svVars, pgVars>>
ShOnly == UNCHANGED <<ctlVars, qVars, stickVars, supVars, vidVars, asmVars, wkVars, encVars, ebVars, satVars, rqVars, rbVars, hbVars, cvVars, fcVars, skVars, svVars, pgVars>>
EncOnly == UNCHANGED <<ctlVars, qVars, stickVars, supVars, vidVars, asmVars, wkVars, shVars, ebVars, satVars, rqVars, rbVars, hbVars, cvVars, fcVars, skVars, svVars, pgVars>>
EbOnly == UNCHANGED <<ctlVars, qVars, stickVars, supVars, vidVars, asmVars, wkVars, shVars, encVars, satVars, rqVars, rbVars, hbVars, cvVars, fcVars, skVars, svVars, pgVars>>
SatOnly == UNCHANGED <<ctlVars, qVars, stickVars, supVars, vidVars, asmVars, wkVars, shVars, encVars, ebVars, rqVars, rbVars, hbVars, cvVars, fcVars, skVars, svVars, pgVars>>
RqOnly == UNCHANGED <<ctlVars, qVars, stickVars, supVars, vidVars, asmVars, wkVars, shVars, encVars, ebVars, satVars, rbVars, hbVars, cvVars, fcVars, skVars, svVars, pgVars>>
RbOnly == UNCHANGED <<ctlVars, qVars, stickVars, supVars, vidVars, asmVars, wkVars, shVars, encVars, ebVars, satVars, rqVars, hbVars, cvVars, fcVars, skVars, svVars, pgVars>>
HbOnly == UNCHANGED <<ctlVars, qVars, stickVars, supVars, vidVars, asmVars, wkVars, shVars, encVars, ebVars, satVars, rqVars, rbVars, cvVars, fcVars, skVars, svVars, pgVars>>
CvOnly == UNCHANGED <<ctlVars, qVars, stickVars, supVars, vidVars, asmVars, wkVars, shVars, encVars, ebVars, satVars, rqVars, rbVars, hbVars, fcVars, skVars, svVars, pgVars>>
FcOnly == UNCHANGED <<ctlVars, qVars, stickVars, supVars, vidVars, asmVars, wkVars, shVars, encVars, ebVars, satVars, rqVars, rbVars, hbVars, cvVars, skVars, svVars, pgVars>>
SkOnly == UNCHANGED <<ctlVars, qVars, stickVars, supVars, vidVars, asmVars, wkVars, shVars, encVars, ebVars, satVars, rqVars, rbVars, hbVars, cvVars, fcVars, svVars, pgVars>>
SvOnly == UNCHANGED <<ctlVars, qVars, stickVars, supVars, vidVars, asmVars, wkVars, shVars, encVars, ebVars, satVars, rqVars, rbVars, hbVars, cvVars, fcVars, skVars, pgVars>>
PgOnly == UNCHANGED <<ctlVars, qVars, stickVars, supVars, vidVars, asmVars, wkVars, shVars, encVars, ebVars, satVars, rqVars, rbVars, hbVars, cvVars, fcVars, skVars, svVars>>

---------------------------------------------------------------------------
(***************************************************************************)
(* The control pipeline.                                                   *)
(***************************************************************************)
Axes == <<"throttle", "yaw", "pitch", "roll">>
AxisNames == {"throttle", "yaw", "pitch", "roll"}
Flags == {"takeoff", "land", "stop"}
Setters == {"takeoff", "land"}            \* S2xDroneModel.takeoff / land

\* Arguments a caller passes to set_axes_from, in thousandths.
AxisArgs == {-2000, 500}

\* max(-1.0, min(1.0, x)) of set_axes_from
ClampUnit(x) == Max(-1000, Min(1000, x))

Stored(v, id) == [val |-> ClampUnit(v), by |-> id]

InitDirs == [a \in AxisNames |-> [val |-> 0, by |-> 0]]

InitCtl ==
  /\ dirs = InitDirs
  /\ oneShot = [f \in Flags |-> FALSE]
  /\ loopPc = "top"
  /\ snap = InitDirs
  /\ pktFlags = {}
  /\ wr = [pc |-> "idle", val |-> 0, id |-> 0]
  /\ updArgs = InitDirs
  /\ lastSend = "none"
  /\ nAxisCalls = 0
  /\ setCalls = [f \in Setters |-> 0]
  /\ emitted = [f \in Setters |-> 0]
  /\ startedAfter = [f \in Setters |-> FALSE]
  /\ fullTicks = [f \in Setters |-> 0]

axisGhost == <<nAxisCalls>>
flagGhost == <<setCalls, emitted, startedAfter, fullTicks>>

\* ---- set_axes_from: four attribute stores, one per step ----------------
SetAxesFromCall ==
  /\ CtlOnly
  /\ wr.pc = "idle"
  /\ nAxisCalls < MaxAxisCalls
  /\ \E v \in AxisArgs :
       wr' = [pc |-> "throttle", val |-> v, id |-> nAxisCalls + 1]
  /\ nAxisCalls' = nAxisCalls + 1
  /\ UNCHANGED <<dirs, oneShot, loopPc, snap, pktFlags, updArgs, lastSend>>
  /\ UNCHANGED flagGhost

NextWrite(a) ==
  CASE a = "throttle" -> "yaw"
    [] a = "yaw"      -> "pitch"
    [] a = "pitch"    -> "roll"
    [] a = "roll"     -> "idle"

SetAxesFromStore ==
  /\ CtlOnly
  /\ wr.pc \in AxisNames
  /\ dirs' = [dirs EXCEPT ![wr.pc] = Stored(wr.val, wr.id)]
  /\ wr' = [wr EXCEPT !.pc = NextWrite(wr.pc)]
  /\ UNCHANGED <<oneShot, loopPc, snap, pktFlags, updArgs, lastSend, nAxisCalls>>
  /\ UNCHANGED flagGhost

\* ---- set_control_direction: one attribute store, the argument as given --
SetControlDirection ==
  /\ CtlOnly
  /\ wr.pc = "idle"
  /\ nAxisCalls < MaxAxisCalls
  /\ \E a \in AxisNames, v \in AxisArgs :
       dirs' = [dirs EXCEPT ![a] = [val |-> v, by |-> nAxisCalls + 1]]
  /\ nAxisCalls' = nAxisCalls + 1
  /\ UNCHANGED <<oneShot, loopPc, snap, pktFlags, wr, updArgs, lastSend>>
  /\ UNCHANGED flagGhost

\* ---- one-shot setters of the model: a single attribute store ----------
SetFlag(f) ==
  /\ CtlOnly
  /\ setCalls[f] < MaxSetCalls
  /\ oneShot' = [oneShot EXCEPT ![f] = TRUE]
  /\ setCalls' = [setCalls EXCEPT ![f] = @ + 1]
  /\ startedAfter' = [startedAfter EXCEPT ![f] = FALSE]
  /\ fullTicks' = [fullTicks EXCEPT ![f] = 0]
  /\ UNCHANGED <<dirs, loopPc, snap, pktFlags, wr, updArgs, lastSend,
                 nAxisCalls, emitted>>

Setter == \E f \in Setters : SetFlag(f)

\* ---- _control_loop: one step per access to shared state ---------------
LoopTop ==
  /\ CtlOnly
  /\ loopPc = "top"
  /\ loopPc' = "rd_throttle"
  /\ startedAfter' = [f \in Setters |-> TRUE]
  /\ UNCHANGED <<dirs, oneShot, snap, pktFlags, wr, updArgs, lastSend,
                 nAxisCalls, setCalls, emitted, fullTicks>>

NextRead(a) ==
  CASE a = "throttle" -> "rd_yaw"
    [] a = "yaw"      -> "rd_pitch"
    [] a = "pitch"    -> "rd_roll"
    [] a = "roll"     -> "update"

ReadDir(a) ==
  /\ CtlOnly
  /\ loopPc = "rd_" \o a
  /\ snap' = [snap EXCEPT ![a] = dirs[a]]
  /\ loopPc' = NextRead(a)
  /\ UNCHANGED <<dirs, oneShot, pktFlags, wr, updArgs, lastSend>>
  /\ UNCHANGED axisGhost
  /\ UNCHANGED flagGhost

LoopRead == \E a \in AxisNames : ReadDir(a)

\* model.update(dt, {...}): the dict built above is handed to the strategy.
\* The effect on the stick values is the subject of SpecStick.
LoopUpdate ==
  /\ CtlOnly
  /\ loopPc = "update"
  /\ updArgs' = snap
  /\ snap' = InitDirs
  /\ pktFlags' = {}
  /\ loopPc' = "b_takeoff"
  /\ UNCHANGED <<dirs, oneShot, wr, lastSend>>
  /\ UNCHANGED axisGhost
  /\ UNCHANGED flagGhost

NextBuild(f) ==
  CASE f = "takeoff" -> "b_land"
    [] f = "land"    -> "b_stop"
    [] f = "stop"    -> "c_takeoff"

\* build_control_packet lines 30-35: if drone_model.<f>_flag: pkt[6] |= bit
BuildReadFlag(f) ==
  /\ CtlOnly
  /\ loopPc = "b_" \o f
  /\ pktFlags' = IF oneShot[f] THEN pktFlags \cup {f} ELSE pktFlags
  /\ loopPc' = NextBuild(f)
  /\ UNCHANGED <<dirs, oneShot, snap, wr, updArgs, lastSend>>
  /\ UNCHANGED axisGhost
  /\ UNCHANGED flagGhost

BuildRead == \E f \in Flags : BuildReadFlag(f)

NextClear(f) ==
  CASE f = "takeoff" -> "c_land"
    [] f = "land"    -> "c_stop"
    [] f = "stop"    -> "send"

\* build_control_packet lines 54-56: drone_model.<f>_flag = False.  The
\* packet is returned after the last store; its flag bits are counted then.
BuildClearFlag(f) ==
  /\ CtlOnly
  /\ loopPc = "c_" \o f
  /\ oneShot' = [oneShot EXCEPT ![f] = FALSE]
  /\ loopPc' = NextClear(f)
  /\ emitted' = IF f = "stop"
                THEN [g \in Setters |-> IF g \in pktFlags THEN emitted[g] + 1
                                                          ELSE emitted[g]]
                ELSE emitted
  /\ UNCHANGED <<dirs, snap, pktFlags, wr, updArgs, lastSend, nAxisCalls,
                 setCalls, startedAfter, fullTicks>>

BuildClear == \E f \in Flags : BuildClearFlag(f)

\* send_control_packet: sendto succeeds, or raises and the loop's
\* "except Exception: pass" absorbs it.
LoopSend ==
  /\ CtlOnly
  /\ loopPc = "send"
  /\ \E r \in {"sent", "raised"} : lastSend' = r
  /\ loopPc' = "sleep"
  /\ UNCHANGED <<dirs, oneShot, snap, pktFlags, wr, updArgs>>
  /\ UNCHANGED axisGhost
  /\ UNCHANGED flagGhost

\* time.sleep(update_interval): the tick is over.
LoopSleep ==
  /\ CtlOnly
  /\ loopPc = "sleep"
  /\ loopPc' = "top"
  /\ fullTicks' = [f \in Setters |->
                     IF startedAfter[f] THEN Min(2, fullTicks[f] + 1)
                                        ELSE fullTicks[f]]
  /\ UNCHANGED <<dirs, oneShot, snap, pktFlags, wr, updArgs, lastSend,
                 nAxisCalls, setCalls, emitted, startedAfter>>

\* One tick of _control_loop, step by step.
LoopStep ==
  \/ LoopTop
  \/ LoopRead
  \/ LoopUpdate
  \/ BuildRead
  \/ BuildClear
  \/ LoopSend
  \/ LoopSleep

---------------------------------------------------------------------------
(***************************************************************************)
(* DroppingQueue: a queue.Queue whose put drops the oldest item when full. *)
(* Two producers call put / put_nowait (put_nowait is put(block=False),    *)
(* and put ignores block and timeout), one consumer calls get.             *)
(***************************************************************************)
Producers == {"p1", "p2"}
Consumers == {"c1"}

InitQ ==
  /\ q = <<>>
  /\ mutex = "free"
  /\ prodPc = [p \in Producers |-> "idle"]
  /\ prodItem = [p \in Producers |-> 0]
  /\ consPc = [c \in Consumers |-> "idle"]
  /\ unfinished = 0
  /\ nPut = 0
  /\ burst = <<>>
  /\ drained = <<>>

\* put entering the critical section without waiting for the lock
CanAcquireUnlocked(t) == TRUE

\* threading.Lock.acquire succeeds only on a free lock
CanAcquire(t) == mutex = "free"

\* line 22: self.maxsize > 0 and self._qsize() >= self.maxsize
IsFull(queue) == QMaxSize > 0 /\ Len(queue) >= QMaxSize

\* put where the newest item is dropped instead of the oldest
DropNewest(queue) == SubSeq(queue, 1, Len(queue) - 1)

\* line 24: self._get(), deque.popleft
DropOldest(queue) == Tail(queue)

\* put(item): "with self.mutex:" entered
PutAcquire(p) ==
  /\ QOnly
  /\ prodPc[p] = "idle"
  /\ nPut < MaxPuts
  /\ CanAcquire(p)
  /\ mutex' = p
  /\ nPut' = nPut + 1
  /\ prodItem' = [prodItem EXCEPT ![p] = nPut + 1]
  /\ prodPc' = [prodPc EXCEPT ![p] = "check"]
  /\ UNCHANGED <<q, consPc, unfinished, burst, drained>>

\* lines 22-29: drop exactly one oldest item when full
PutEvict(p) ==
  /\ QOnly
  /\ prodPc[p] = "check"
  /\ IF IsFull(q)
     THEN /\ q' = DropOldest(q)
          /\ unfinished' = IF unfinished > 0 THEN unfinished - 1 ELSE unfinished
     ELSE UNCHANGED <<q, unfinished>>
  /\ prodPc' = [prodPc EXCEPT ![p] = "put"]
  /\ UNCHANGED <<mutex, prodItem, consPc, nPut, burst, drained>>

\* lines 31-33 and the end of the with block: _put, count, notify, release
PutEnqueue(p) ==
  /\ QOnly
  /\ prodPc[p] = "put"
  /\ q' = Append(q, prodItem[p])
  /\ unfinished' = unfinished + 1
  /\ burst' = IF drained = <<>> THEN Append(burst, prodItem[p])
                                ELSE <<prodItem[p]>>
  /\ drained' = <<>>
  /\ mutex' = IF mutex = p THEN "free" ELSE mutex
  /\ prodPc' = [prodPc EXCEPT ![p] = "idle"]
  /\ UNCHANGED <<prodItem, consPc, nPut>>

\* queue.Queue.get: "with self.not_empty:" (the same lock) entered
GetAcquire(c) ==
  /\ QOnly
  /\ consPc[c] = "idle"
  /\ CanAcquire(c)
  /\ mutex' = c
  /\ consPc' = [consPc EXCEPT ![c] = "take"]
  /\ UNCHANGED <<q, prodPc, prodItem, unfinished, nPut, burst, drained>>

\* queue.Queue.get: an item is taken from the head, or the queue is empty
\* and the call waits / times out with the lock released
GetTake(c) ==
  /\ QOnly
  /\ consPc[c] = "take"
  /\ IF q # <<>>
     THEN /\ drained' = Append(drained, Head(q))
          /\ q' = Tail(q)
     ELSE UNCHANGED <<q, drained>>
  /\ mutex' = IF mutex = c THEN "free" ELSE mutex
  /\ consPc' = [consPc EXCEPT ![c] = "idle"]
  /\ UNCHANGED <<prodPc, prodItem, unfinished, nPut, burst>>

PutStep == \E p \in Producers : PutAcquire(p) \/ PutEvict(p) \/ PutEnqueue(p)

GetStep == \E c \in Consumers : GetAcquire(c) \/ GetTake(c)

NextQ == PutStep \/ GetStep

---------------------------------------------------------------------------
(***************************************************************************)
(* The stick model: BaseRCModel with the WifiUavRcModel (family B) and     *)
(* CooingdvRcModel (family C) ranges and presets, and the two strategies.  *)
(* update_axes of S2xDroneModel (family A) is the same code; its presets   *)
(* come from a module-level PRESETS that control_profile.py does not       *)
(* define, so family A is not instantiated here.                           *)
(***************************************************************************)
Families == {"B", "C"}

\* STICK_RANGE of the model class
StickRange(f) ==
  CASE f = "A" -> [min |-> 60, mid |-> 128, max |-> 200]
    [] f = "B" -> [min |-> 40, mid |-> 128, max |-> 220]
    [] f = "C" -> [min |-> 50, mid |-> 128, max |-> 200]

RMin(f) == StickRange(f).min * Scale
RMid(f) == StickRange(f).mid * Scale
RMax(f) == StickRange(f).max * Scale
HalfUp(f) == StickRange(f).max - StickRange(f).mid
HalfDown(f) == StickRange(f).mid - StickRange(f).min
FullRange(f) == StickRange(f).max - StickRange(f).min

ProfileNames == {"normal", "precise", "aggressive"}

\* PRESETS of WifiUavRcModel and CooingdvRcModel (the same table): accel and
\* decel ratios and expo in tenths, the immediate ratio in hundredths
Presets(name) ==
  CASE name = "normal"     -> [accel10 |-> 20, decel10 |-> 40, expo10 |-> 5,  imm100 |-> 2]
    [] name = "precise"    -> [accel10 |-> 12, decel10 |-> 50, expo10 |-> 3,  imm100 |-> 1]
    [] name = "aggressive" -> [accel10 |-> 40, decel10 |-> 30, expo10 |-> 12, imm100 |-> 10]

\* SENSITIVITY_SEQ[preset % len(SENSITIVITY_SEQ)]
SensitivitySeq == <<"normal", "precise", "aggressive">>
SensitivityName(i) == SensitivitySeq[(i % Len(SensitivitySeq)) + 1]

\* _apply_profile: immediate_response = immediate_ratio * full_range
ImmediateResponse(f, name) == (Presets(name).imm100 * FullRange(f) * Scale) \div 100

\* accel_rate * dt * (1 + expo_factor * dist / half), with
\* accel_rate = accel_ratio * (max - mid); dt in centiseconds
AccelStep(f, name, dt, dist, half) ==
  (Presets(name).accel10 * HalfUp(f) * dt * (10 * Scale * half + Presets(name).expo10 * dist))
     \div (10000 * half)

\* decel_rate * dt * (1 + 0.5 * dist / half), with
\* decel_rate = decel_ratio * (max - mid)
DecelStep(f, name, dt, dist, half) ==
  (Presets(name).decel10 * HalfUp(f) * dt * (2 * Scale * half + dist))
     \div (2000 * half)

\* update_axes without the clamp at the top of the range
NoClampHigh(f, x) == x

\* the return-to-centre branch without its clamp at center_value
NoClampDownToMid(f, x) == x

\* min(self.max_control_value, x) / max(self.min_control_value, x) /
\* the clamps at center_value of the return-to-centre branch
ClampHigh(f, x) == Min(RMax(f), x)
ClampLow(f, x) == Max(RMin(f), x)
ClampDownToMid(f, x) == Max(RMid(f), x)
ClampUpToMid(f, x) == Min(RMid(f), x)

\* update_axes, one axis: the new value of the axis
UpdateAxis(f, name, cur, last, d, dt, boost) ==
  IF d > 0 THEN
    LET c1 == IF boost /\ last <= 0
              THEN cur + Min(RMax(f) - cur, ImmediateResponse(f, name))
              ELSE cur
    IN ClampHigh(f, c1 + AccelStep(f, name, dt, RMax(f) - c1, HalfUp(f)))
  ELSE IF d < 0 THEN
    LET c1 == IF boost /\ last >= 0
              THEN cur - Min(cur - RMin(f), ImmediateResponse(f, name))
              ELSE cur
    IN ClampLow(f, c1 - AccelStep(f, name, dt, c1 - RMin(f), HalfDown(f)))
  ELSE IF cur > RMid(f) THEN
    ClampDownToMid(f, cur - DecelStep(f, name, dt, cur - RMid(f), HalfUp(f)))
  ELSE IF cur < RMid(f) THEN
    ClampUpToMid(f, cur + DecelStep(f, name, dt, RMid(f) - cur, HalfDown(f)))
  ELSE cur

\* boost_enabled of update_axes
Boost(a) == a \in {"pitch", "roll"}

\* abs(v) ** (1 + expo) in thousandths, for the inputs of StickInputs
PowExpo(m, e10) ==
  IF m = 0 THEN 0
  ELSE IF m = 1000 THEN 1000
  ELSE CASE e10 = 5  -> 354      \* 0.5 ** 1.5
         [] e10 = 3  -> 406      \* 0.5 ** 1.3
         [] e10 = 12 -> 218      \* 0.5 ** 2.2

Abs(x) == IF x < 0 THEN -x ELSE x

\* DirectStrategy.update: sign * abs(v) ** (1 + expo) when expo is non-zero
ExpoCurve(v, e10) ==
  IF e10 # 0 THEN (IF v >= 0 THEN 1 ELSE -1) * PowExpo(Abs(v), e10) ELSE v

\* BaseRCModel._scale_normalised
ScaleNormalised(f, v) ==
  IF v >= 0 THEN RMid(f) + (v * HalfUp(f) * Scale) \div 1000
            ELSE RMid(f) + (v * HalfDown(f) * Scale) \div 1000

\* Normalised stick inputs, in thousandths, and tick lengths in centiseconds.
StickInputs == {-1000, -500, 0, 500, 1000}
TickDts == {0, 1, 10}

\* The dict of the four inputs built from one value: throttle and pitch get
\* a, yaw and roll get -a.
AxesDict(a) == [x \in AxisNames |-> IF x \in {"throttle", "pitch"} THEN a ELSE -a]

InitStick ==
  /\ fam \in Families
  /\ strategy = "Incremental"
  /\ profile = "normal"
  /\ axisVal = [a \in AxisNames |-> RMid(fam)]
  /\ lastDir = [a \in AxisNames |-> 0]
  /\ startVal = axisVal
  /\ nTicks = 0

\* model.update(dt, axes) -> strategy.update(model, dt, axes)
ModelUpdate(dt, axes) ==
  /\ nTicks' = Min(nTicks + 1, MaxTicks)
  /\ IF strategy = "Incremental"
     THEN /\ axisVal' = [a \in AxisNames |->
                           UpdateAxis(fam, profile, axisVal[a], lastDir[a],
                                      axes[a], dt, Boost(a))]
          /\ lastDir' = axes
     ELSE /\ axisVal' = [a \in AxisNames |->
                           ScaleNormalised(fam, ExpoCurve(axes[a], Presets(profile).expo10))]
          /\ UNCHANGED lastDir
  /\ UNCHANGED <<fam, strategy, profile, startVal>>

StickTick ==
  /\ StickOnly
  /\ nTicks < MaxTicks
  /\ \E a \in StickInputs, dt \in TickDts : ModelUpdate(dt, AxesDict(a))

\* set_strategy
SetStrategy ==
  /\ StickOnly
  /\ \E st \in {"Incremental", "Direct"} : strategy' = st
  /\ UNCHANGED <<fam, profile, axisVal, lastDir, startVal, nTicks>>

\* set_profile(name): unknown names raise and change nothing
SetProfile ==
  /\ StickOnly
  /\ \E name \in ProfileNames \cup {"unknown"} :
       profile' = IF name \in ProfileNames THEN name ELSE profile
  /\ UNCHANGED <<fam, strategy, axisVal, lastDir, startVal, nTicks>>

\* set_sensitivity(preset)
SetSensitivity ==
  /\ StickOnly
  /\ \E i \in 0..3 : profile' = SensitivityName(i)
  /\ UNCHANGED <<fam, strategy, axisVal, lastDir, startVal, nTicks>>

\* Axis values a run of zero-input ticks can start from: the two ends of the
\* range, the centre, and one fixed-point step either side of the centre.
StartVals(f) == {RMin(f), RMid(f) - 1, RMid(f), RMid(f) + 1, RMax(f)}

\* Tick lengths of the zero-input run, in centiseconds (dt > 0).
DecayDts == {1, 10}

InitDecay ==
  /\ fam \in Families
  /\ strategy = "Incremental"
  /\ profile \in ProfileNames
  /\ \E a, b \in StartVals(fam) :
       axisVal = [x \in AxisNames |-> IF x \in {"throttle", "pitch"} THEN a ELSE b]
  /\ lastDir = [a \in AxisNames |-> 0]
  /\ startVal = axisVal
  /\ nTicks = 0

\* model.update(dt, axes) with every direction 0
DecayTick ==
  /\ StickOnly
  /\ \E dt \in DecayDts : ModelUpdate(dt, AxesDict(0))

NextDecay == DecayTick

NextStick == StickTick \/ SetStrategy \/ SetProfile \/ SetSensitivity

\* The state of the stick model in the specifications of the other components.
IdleStick ==
  /\ fam = "B"
  /\ strategy = "Incremental"
  /\ profile = "normal"
  /\ axisVal = [a \in AxisNames |-> RMid("B")]
  /\ lastDir = [a \in AxisNames |-> 0]
  /\ startVal = axisVal
  /\ nTicks = 0

---------------------------------------------------------------------------
(***************************************************************************)
(* VideoReceiverService._receiver_loop supervising one video adapter at a  *)
(* time, the adapter's receive thread, and (family B) the RC adapter that  *)
(* sends on the video adapter's socket.                                    *)
(***************************************************************************)
VideoFamilies == {"A", "B"}

\* S2xVideoProtocolAdapter.LINK_DEAD_TIMEOUT, seconds
LINK_DEAD_TIMEOUT == 8

\* The silence clock stops counting one second past the timeout.
SilenceCap == LINK_DEAD_TIMEOUT + 1

NoSend == [sock |-> -1, result |-> "none", live |-> 0]

InitSup ==
  /\ vfam \in VideoFamilies
  /\ svcRunning = TRUE
  /\ supPc = "top"
  /\ gen = 0
  /\ protoSock = 0
  /\ protoRunning = FALSE
  /\ rxAlive = FALSE
  /\ closed = {}
  /\ rcSock = 0
  /\ rcShared = FALSE
  /\ silence = 0
  /\ rcLast = NoSend
  /\ rcDrops = {}
  /\ polls = 0

\* The state of the supervisor in the specifications of the other components.
IdleSup ==
  /\ vfam = "B"
  /\ svcRunning = TRUE
  /\ supPc = "top"
  /\ gen = 0
  /\ protoSock = 0
  /\ protoRunning = FALSE
  /\ rxAlive = FALSE
  /\ closed = {}
  /\ rcSock = 0
  /\ rcShared = FALSE
  /\ silence = 0
  /\ rcLast = NoSend
  /\ rcDrops = {}
  /\ polls = 0

\* The supervisor never hands the socket over
NeverInject(f) == FALSE

\* isinstance(self.protocol, WifiUavVideoProtocolAdapter) and self.rc_adapter
InjectNeeded(f) == f = "B"

\* adapter.is_running()
IsRunning == protoRunning /\ rxAlive

\* The adapter's receive loop is up on an open socket.
TransportRunning == protoSock # 0 /\ IsRunning /\ protoSock \notin closed

\* while self._running.is_set(): self.protocol = adapter_class(**args)
\* The constructor opens socket gen+1; it may raise (its sendto / bind), which
\* leaves self.protocol None and goes through finally to the sleep.
CreateProtocol ==
  /\ SupOnly
  /\ supPc = "top"
  /\ IF ~svcRunning
     THEN /\ supPc' = "done"
          /\ UNCHANGED <<gen, protoSock, protoRunning, closed>>
     ELSE /\ gen < MaxGen
          /\ gen' = gen + 1
          /\ \/ /\ protoSock' = gen + 1
                /\ protoRunning' = (vfam = "B")
                /\ supPc' = IF InjectNeeded(vfam) THEN "set_socket" ELSE "start"
                /\ UNCHANGED closed
             \/ /\ closed' = closed \cup {gen + 1}
                /\ supPc' = "sleep"
                /\ UNCHANGED <<protoSock, protoRunning>>
  /\ UNCHANGED <<vfam, svcRunning, rxAlive, rcSock, rcShared, silence, rcLast, rcDrops, polls>>

\* set_rc_adapter -> rc_adapter.set_socket: close the RC adapter's own socket
SetSocketClose ==
  /\ SupOnly
  /\ supPc = "set_socket"
  /\ closed' = IF ~rcShared THEN closed \cup {rcSock} ELSE closed
  /\ supPc' = "assign"
  /\ UNCHANGED <<vfam, svcRunning, gen, protoSock, protoRunning, rxAlive, rcSock,
                 rcShared, silence, rcLast, rcDrops, polls>>

\* set_socket: self.sock = sock; self._is_shared_sock = True
SetSocketAssign ==
  /\ SupOnly
  /\ supPc = "assign"
  /\ rcSock' = protoSock
  /\ rcShared' = TRUE
  /\ supPc' = "start"
  /\ UNCHANGED <<vfam, svcRunning, gen, protoSock, protoRunning, rxAlive, closed,
                 silence, rcLast, rcDrops, polls>>

\* self.protocol.start(): the receive thread starts; it leaves at once when
\* the adapter was stopped meanwhile (B: _running False; A: recv on the closed
\* socket raises OSError)
ProtocolStart ==
  /\ SupOnly
  /\ supPc = "start"
  /\ protoRunning' = IF vfam = "A" THEN TRUE ELSE protoRunning
  /\ rxAlive' = (protoRunning' /\ protoSock \notin closed)
  /\ silence' = 0
  /\ supPc' = "loop"
  /\ UNCHANGED <<vfam, svcRunning, gen, protoSock, closed, rcSock, rcShared,
                 rcLast, rcDrops, polls>>

\* while self._running.is_set() and self.protocol.is_running(): get_frame(1.0)
FrameLoop ==
  /\ SupOnly
  /\ supPc = "loop"
  /\ IF svcRunning /\ IsRunning
     THEN supPc' = "loop" /\ polls' = 1 - polls
     ELSE supPc' = "finally" /\ polls' = polls
  /\ UNCHANGED <<vfam, svcRunning, gen, protoSock, protoRunning, rxAlive, closed,
                 rcSock, rcShared, silence, rcLast, rcDrops>>

\* adapter.stop(): _running off, threads joined, socket closed
StopAdapter ==
  /\ protoRunning' = FALSE
  /\ rxAlive' = FALSE
  /\ closed' = closed \cup {protoSock}

\* finally: if self.protocol: self.protocol.stop(); self.protocol = None
ProtocolStop ==
  /\ SupOnly
  /\ supPc = "finally"
  /\ IF protoSock # 0
     THEN StopAdapter /\ protoSock' = 0
     ELSE UNCHANGED <<protoRunning, rxAlive, closed, protoSock>>
  /\ supPc' = "sleep"
  /\ UNCHANGED <<vfam, svcRunning, gen, rcSock, rcShared, silence, rcLast, rcDrops, polls>>

\* if self._running.is_set(): time.sleep(5); back to the top of the loop
ReconnectSleep ==
  /\ SupOnly
  /\ supPc = "sleep"
  /\ supPc' = "top"
  /\ UNCHANGED <<vfam, svcRunning, gen, protoSock, protoRunning, rxAlive, closed,
                 rcSock, rcShared, silence, rcLast, rcDrops, polls>>

ReceiverLoop ==
  \/ CreateProtocol
  \/ SetSocketClose
  \/ SetSocketAssign
  \/ ProtocolStart
  \/ FrameLoop
  \/ ProtocolStop
  \/ ReconnectSleep

\* VideoReceiverService.stop(), from another thread
ServiceStop ==
  /\ SupOnly
  /\ svcRunning
  /\ svcRunning' = FALSE
  /\ IF protoSock # 0
     THEN StopAdapter
     ELSE UNCHANGED <<protoRunning, rxAlive, closed>>
  /\ UNCHANGED <<vfam, supPc, gen, protoSock, rcSock, rcShared, silence, rcLast, rcDrops, polls>>

\* _rx_loop: recv raises an OSError other than a timeout; the thread ends
RxError ==
  /\ SupOnly
  /\ rxAlive
  /\ rxAlive' = FALSE
  /\ UNCHANGED <<vfam, svcRunning, supPc, gen, protoSock, protoRunning, closed,
                 rcSock, rcShared, silence, rcLast, rcDrops, polls>>

\* _rx_loop: recv returns a datagram
Datagram ==
  /\ SupOnly
  /\ TransportRunning
  /\ silence' = 0
  /\ UNCHANGED <<vfam, svcRunning, supPc, gen, protoSock, protoRunning, rxAlive,
                 closed, rcSock, rcShared, rcLast, rcDrops, polls>>

\* _rx_loop: recv times out after a second (socket.timeout -> None -> continue)
ClockTick ==
  /\ SupOnly
  /\ TransportRunning
  /\ silence' = Min(silence + 1, SilenceCap)
  /\ UNCHANGED <<vfam, svcRunning, supPc, gen, protoSock, protoRunning, rxAlive,
                 closed, rcSock, rcShared, rcLast, rcDrops, polls>>

\* send_control_packet that lets the OSError out
SendRaises(isClosed) == IF isClosed THEN "raised" ELSE "sent"

\* send_control_packet: sendto; except OSError: return
SendResult(isClosed) == IF isClosed THEN "dropped" ELSE "sent"

\* FlightController._control_loop -> WifiUavRcProtocolAdapter.send_control_packet
SendControlPacket ==
  /\ SupOnly
  /\ vfam = "B"
  /\ rcLast' = [sock   |-> rcSock,
                result |-> SendResult(rcSock \in closed),
                live   |-> IF TransportRunning THEN protoSock ELSE 0]
  /\ rcDrops' = IF rcSock \in closed THEN rcDrops \cup {rcSock} ELSE rcDrops
  /\ UNCHANGED <<vfam, svcRunning, supPc, gen, protoSock, protoRunning, rxAlive,
                 closed, rcSock, rcShared, silence, polls>>

NextSup ==
  \/ ReceiverLoop
  \/ ServiceStop
  \/ RxError
  \/ Datagram
  \/ ClockTick
  \/ SendControlPacket

---------------------------------------------------------------------------
(***************************************************************************)
(* WifiUavVideoProtocolAdapter: handle_payload on the receive thread, the  *)
(* per-frame watchdog, the adapter's small frame queue and the supervisor  *)
(* moving frames to the service's queue.                                   *)
(***************************************************************************)
\* 16-bit frame counter: (x) & 0xFFFF
FidModulus == 65536
Wrap16(x) == x % FidModulus

\* MAX_RETRIES
MAX_RETRIES == 3

\* queue.Queue(maxsize=2)
FrameQMax == 2

\* Frame ids a datagram can carry: the two sides of the 16-bit wrap.
FrameIds == {65535, 0, 1, 2}
FragIds == 0..MaxFrag

\* A datagram as handle_payload reads it: valid (long enough, byte 1 = 0x01),
\* frame counter, fragment counter, last (byte 2 # 0x38).
Datagrams == [valid : BOOLEAN, fid : FrameIds, frag : FragIds, last : BOOLEAN]

NoFrame == [id |-> -1, frags |-> {}, lastIdx |-> -1]

InitVid ==
  /\ currentFid = 1
  /\ fragments = {}
  /\ retryCnt = 0
  /\ hadRetry = FALSE
  /\ lastReq = 0
  /\ frameQ = <<>>
  /\ lastFrame = NoFrame
  /\ delivered = <<>>
  /\ nDatagrams = 0
  /\ wdDrops = 0
  /\ rxPc = "recv"
  /\ pending = -1
  /\ discarded = "none"
  /\ fidRetries = 0

\* self._frame_q.put(frame, timeout=0.2) entered: with room the frame is
\* appended at once, with a full queue the receive thread waits in put
FrameQOffer(id) ==
  IF Len(frameQ) < FrameQMax
  THEN frameQ' = Append(frameQ, id) /\ UNCHANGED <<rxPc, pending>>
  ELSE rxPc' = "put_wait" /\ pending' = id /\ UNCHANGED frameQ

\* handle_payload(payload), then _rx_loop's put of the returned frame
HandlePayload(d) ==
  IF ~d.valid
  THEN UNCHANGED <<currentFid, fragments, retryCnt, hadRetry, lastReq, frameQ,
                   lastFrame, rxPc, pending>>
  ELSE
    LET stored == IF d.fid # currentFid THEN {d.frag} ELSE fragments \cup {d.frag}
    IN /\ retryCnt' = 0
       /\ IF ~d.last
          THEN /\ currentFid' = d.fid
               /\ fragments' = stored
               /\ UNCHANGED <<hadRetry, lastReq, frameQ, lastFrame, rxPc, pending>>
          ELSE /\ lastFrame' = [id |-> d.fid, frags |-> stored, lastIdx |-> d.frag]
               /\ hadRetry' = FALSE
               /\ fragments' = {}
               /\ lastReq' = d.fid
               /\ currentFid' = Wrap16(d.fid + 1)
               /\ FrameQOffer(d.fid)

\* _rx_loop: one datagram received
RxDatagram ==
  /\ VidOnly
  /\ rxPc = "recv"
  /\ nDatagrams < MaxDatagrams
  /\ nDatagrams' = nDatagrams + 1
  /\ \E d \in Datagrams : HandlePayload(d)
  /\ fidRetries' = IF currentFid' # currentFid THEN 0 ELSE fidRetries
  /\ UNCHANGED <<delivered, wdDrops, discarded>>

\* _frame_q.put: the consumer made room within the timeout
PutResume ==
  /\ VidOnly
  /\ rxPc = "put_wait"
  /\ Len(frameQ) < FrameQMax
  /\ frameQ' = Append(frameQ, pending)
  /\ rxPc' = "recv"
  /\ pending' = -1
  /\ UNCHANGED <<currentFid, fragments, retryCnt, hadRetry, lastReq, lastFrame,
                 delivered, nDatagrams, wdDrops, discarded, fidRetries>>

\* _frame_q.put raises queue.Full after 0.2 s: except queue.Full: pass
PutTimeout ==
  /\ VidOnly
  /\ rxPc = "put_wait"
  /\ Len(frameQ) = FrameQMax
  /\ rxPc' = "recv"
  /\ pending' = -1
  /\ discarded' = "newest"
  /\ UNCHANGED <<currentFid, fragments, retryCnt, hadRetry, lastReq, frameQ,
                 lastFrame, delivered, nDatagrams, wdDrops, fidRetries>>

\* _watchdog_loop, FRAME_TIMEOUT elapsed, _retry_cnt < MAX_RETRIES
WatchdogRetry ==
  /\ VidOnly
  /\ retryCnt < MAX_RETRIES
  /\ lastReq' = Wrap16(currentFid - 1)
  /\ retryCnt' = retryCnt + 1
  /\ hadRetry' = TRUE
  /\ fidRetries' = Min(fidRetries + 1, MAX_RETRIES + 1)
  /\ UNCHANGED <<currentFid, fragments, frameQ, lastFrame, delivered, nDatagrams,
                 wdDrops, rxPc, pending, discarded>>

\* _watchdog_loop, FRAME_TIMEOUT elapsed, retries used up: drop the frame
WatchdogDrop ==
  /\ VidOnly
  /\ retryCnt >= MAX_RETRIES
  /\ wdDrops < MaxWatchdogDrops
  /\ wdDrops' = wdDrops + 1
  /\ fragments' = {}
  /\ retryCnt' = 0
  /\ currentFid' = Wrap16(currentFid + 1)
  /\ lastReq' = Wrap16(Wrap16(currentFid + 1) - 1)
  /\ hadRetry' = FALSE
  /\ fidRetries' = 0
  /\ UNCHANGED <<frameQ, lastFrame, delivered, nDatagrams, rxPc, pending, discarded>>

\* The ids of the last two frames handed on, oldest first
Remember(seq, id) == IF Len(seq) < 2 THEN Append(seq, id) ELSE <<seq[2], id>>

\* _receiver_loop: frame = protocol.get_frame(); self.frame_queue.put(frame)
GetFrame ==
  /\ VidOnly
  /\ frameQ # <<>>
  /\ delivered' = Remember(delivered, Head(frameQ))
  /\ frameQ' = Tail(frameQ)
  /\ UNCHANGED <<currentFid, fragments, retryCnt, hadRetry, lastReq, lastFrame,
                 nDatagrams, wdDrops, rxPc, pending, discarded, fidRetries>>

NextVid ==
  \/ RxDatagram
  \/ PutResume
  \/ PutTimeout
  \/ WatchdogRetry
  \/ WatchdogDrop
  \/ GetFrame

---------------------------------------------------------------------------
(***************************************************************************)
(* The three reassemblers with the fragment payloads as byte sequences:    *)
(* S2xVideoModel.ingest_chunk (family A), the store-and-assemble part of   *)
(* WifiUavVideoProtocolAdapter.handle_payload (family B), and              *)
(* WifiUavVideoModel.ingest_chunk.                                         *)
(***************************************************************************)
AsmKinds == {"s2x", "adapterB", "modelB"}

\* SOI_MARKER / SOI, EOI_MARKER / EOI
SOI == <<255, 216>>
EOI == <<255, 217>>

\* generate_jpeg_headers: SOI, then the DQT, SOF0 and SOS segments, of which
\* only the first marker (FF DB) is kept here
JpegHeader == SOI \o <<255, 219>>

\* Fragment payloads: empty, one marker, half a marker, and EOI before SOI.
Payloads == {<<>>, SOI, EOI, <<255>>, EOI \o SOI}
ChunkIds == {0, 1, 2}
AsmFrameIds == {1, 2}

Absent == <<-1>>
NoFrags == [k \in ChunkIds |-> Absent]
StoredKeys(f) == {k \in ChunkIds : f[k] # Absent}
NoData == [id |-> -1, data |-> <<>>]
NoInput == [fid |-> -1, k |-> -1, payload |-> <<>>]

StartsWith(data, pat) ==
  Len(data) >= Len(pat) /\ SubSeq(data, 1, Len(pat)) = pat
EndsWith(data, pat) ==
  Len(data) >= Len(pat) /\ SubSeq(data, Len(data) - Len(pat) + 1, Len(data)) = pat

\* 0-based positions at which pat occurs in data
Occurrences(data, pat) ==
  {i \in 0..(Len(data) - Len(pat)) : SubSeq(data, i + 1, i + Len(pat)) = pat}

SetMin(S) == CHOOSE x \in S : \A y \in S : x <= y
SetMax(S) == CHOOSE x \in S : \A y \in S : x >= y

\* bytes.find / bytes.rfind
Find(data, pat) == IF Occurrences(data, pat) = {} THEN -1 ELSE SetMin(Occurrences(data, pat))
RFind(data, pat) == IF Occurrences(data, pat) = {} THEN -1 ELSE SetMax(Occurrences(data, pat))

\* b"".join(frags[k] for k in sorted(keys))
RECURSIVE JoinKeys(_, _)
JoinKeys(f, keys) ==
  IF keys = {} THEN <<>>
  ELSE LET k == SetMin(keys) IN f[k] \o JoinKeys(f, keys \ {k})

\* b"".join(self._fragments[i] for i in range(n)) on a defaultdict(bytes)
RECURSIVE JoinRange(_, _, _)
JoinRange(f, i, n) ==
  IF i >= n THEN <<>>
  ELSE (IF i \in ChunkIds /\ f[i] # Absent THEN f[i] ELSE <<>>) \o JoinRange(f, i + 1, n)

\* self._frags.setdefault(chunk_id, payload)
StoreSetDefault(f, k, payload) == IF f[k] = Absent THEN [f EXCEPT ![k] = payload] ELSE f

\* self._fragments[fragment_id] = jpeg_slice
StoreAssign(f, k, payload) == [f EXCEPT ![k] = payload]

\* What the arrival of payload for index k did, given the map before and after
\* the store.
DupEffect(before, after, k, payload) ==
  IF before[k] = Absent \/ before[k] = payload THEN asmDup
  ELSE IF after[k] = before[k] THEN "kept" ELSE "replaced"

\* the cut data[start : end + 2] left out: the joined bytes as they are
NoCut(data, start, end) == data

\* data[start : end + len(EOI_MARKER)]
CutJpeg(data, start, end) == SubSeq(data, start + 1, end + Len(EOI))

\* S2xVideoModel._assemble_current on fragment map f: the frame data, or
\* Absent when it returns None
S2xAssemble(f) ==
  LET keys == StoredKeys(f)
      data == JoinKeys(f, keys)
      start == Find(data, SOI)
      end == RFind(data, EOI)
  IN IF keys = {} THEN Absent
     ELSE IF Cardinality(keys) # SetMax(keys) - SetMin(keys) + 1 THEN Absent
     ELSE IF start < 0 \/ end < 0 \/ end <= start THEN Absent
     ELSE CutJpeg(data, start, end)

\* HEADER_LEN, SYNC_BYTES, EOS_MARKER of S2xVideoProtocolAdapter
HEADER_LEN == 8
SYNC_BYTES == <<64, 64>>
EOS_MARKER == <<35, 35>>

\* First two bytes a family A datagram arrives with
SyncPrefixes == {SYNC_BYTES, <<64, 0>>}

NoHeader == [len |-> -1, sync |-> <<>>]

\* A datagram of header, body and optional trailer, as far as line 93 reads it
S2xHeader(sync, body, trailer) ==
  [len |-> HEADER_LEN + Len(body) + (IF trailer THEN Len(EOS_MARKER) ELSE 0), sync |-> sync]

\* every datagram passes the test of line 93
S2xRejectsNothing(hdr) == FALSE

\* len(payload) <= self.HEADER_LEN or payload[:2] != self.SYNC_BYTES
S2xRejects(hdr) == hdr.len <= HEADER_LEN \/ hdr.sync # SYNC_BYTES

\* self._frags.clear() left out of _reset: the fragments stay
KeepFrags(f) == f

\* S2xVideoModel._reset: the fragment map after self._frags.clear()
Reset(f) == NoFrags

InitAsm ==
  /\ asmKind \in AsmKinds
  /\ asmCur = IF asmKind = "adapterB" THEN 1 ELSE -1
  /\ asmFrags = NoFrags
  /\ asmExpected = -1
  /\ asmOut = NoData
  /\ asmDup = "none"
  /\ nChunks = 0
  /\ asmIn = NoInput
  /\ asmRet = NoData
  /\ asmDropped = 0
  /\ asmHdr = NoHeader

\* The state of the byte-level reassembler in the other specifications.
IdleAsm ==
  /\ asmKind = "s2x"
  /\ asmCur = -1
  /\ asmFrags = NoFrags
  /\ asmExpected = -1
  /\ asmOut = NoData
  /\ asmDup = "none"
  /\ nChunks = 0
  /\ asmIn = NoInput
  /\ asmRet = NoData
  /\ asmDropped = 0
  /\ asmHdr = NoHeader

\* S2xVideoModel.ingest_chunk(stream_id, chunk_id, payload), is_last not given
S2xIngest(fid, k, payload) ==
  LET changed == asmCur # -1 /\ fid # asmCur
      done == IF changed THEN S2xAssemble(asmFrags) ELSE Absent
      before == IF changed THEN Reset(asmFrags) ELSE asmFrags
      after == StoreSetDefault(before, k, payload)
  IN /\ asmCur' = fid
     /\ asmFrags' = after
     /\ asmOut' = IF done # Absent THEN [id |-> asmCur, data |-> done] ELSE asmOut
     /\ asmRet' = IF done # Absent THEN [id |-> asmCur, data |-> done] ELSE NoData
     /\ asmIn' = [fid |-> fid, k |-> k, payload |-> payload]
     /\ asmDup' = DupEffect(before, after, k, payload)
     /\ UNCHANGED <<asmExpected, asmDropped>>

\* S2xVideoProtocolAdapter.handle_payload on a datagram with the given first
\* two bytes, frame id, slice id and body, with or without the "##" trailer
S2xHandlePayload(sync, fid, k, body, trailer) ==
  LET hdr == S2xHeader(sync, body, trailer)
  IN /\ asmHdr' = hdr
     /\ IF S2xRejects(hdr)
        THEN /\ asmRet' = NoData
             /\ asmIn' = NoInput
             /\ UNCHANGED <<asmCur, asmFrags, asmExpected, asmOut, asmDup, asmDropped>>
        ELSE S2xIngest(fid, k, body)

S2xIngestChunk ==
  /\ AsmOnly
  /\ asmKind = "s2x"
  /\ nChunks < MaxChunks
  /\ nChunks' = nChunks + 1
  /\ \E sync \in SyncPrefixes, fid \in AsmFrameIds, k \in ChunkIds, body \in Payloads,
        trailer \in BOOLEAN : S2xHandlePayload(sync, fid, k, body, trailer)
  /\ UNCHANGED asmKind

\* handle_payload from "if frame_id != self._current_fid" to the return: the
\* fragment store and the assembly, payload[56:] being the JPEG bytes
AdapterBIngest(fid, k, payload, last) ==
  LET before == IF fid # asmCur THEN NoFrags ELSE asmFrags
      after == StoreSetDefault(before, k, payload)
      frame == [id |-> fid, data |-> JpegHeader \o JoinKeys(after, StoredKeys(after)) \o EOI]
  IN /\ asmDup' = DupEffect(before, after, k, payload)
     /\ asmDropped' = IF fid # asmCur THEN asmDropped + 1 ELSE asmDropped
     /\ asmIn' = [fid |-> fid, k |-> k, payload |-> payload]
     /\ IF ~last
        THEN /\ asmCur' = fid
             /\ asmFrags' = after
             /\ asmRet' = NoData
             /\ UNCHANGED asmOut
        ELSE /\ asmOut' = frame
             /\ asmRet' = frame
             /\ asmFrags' = NoFrags
             /\ asmCur' = Wrap16(fid + 1)
     /\ UNCHANGED asmExpected

AdapterBHandlePayload ==
  /\ AsmOnly
  /\ UNCHANGED asmHdr
  /\ asmKind = "adapterB"
  /\ nChunks < MaxChunks
  /\ nChunks' = nChunks + 1
  /\ \E fid \in AsmFrameIds, k \in ChunkIds, payload \in Payloads, last \in BOOLEAN :
       AdapterBIngest(fid, k, payload, last)
  /\ UNCHANGED asmKind

\* WifiUavVideoModel.ingest_chunk; a datagram with no JPEG bytes is ignored
ModelBIngest(fid, k, payload, last) ==
  IF payload = <<>>
  THEN /\ asmIn' = [fid |-> fid, k |-> k, payload |-> payload]
       /\ asmRet' = NoData
       /\ UNCHANGED <<asmCur, asmFrags, asmExpected, asmOut, asmDup, asmDropped>>
  ELSE
    LET before == IF asmCur # fid THEN NoFrags ELSE asmFrags
        expBefore == IF asmCur # fid THEN -1 ELSE asmExpected
        after == StoreAssign(before, k, payload)
        expected == IF last THEN k + 1 ELSE expBefore
        complete == expected # -1 /\ Cardinality(StoredKeys(after)) = expected
    IN /\ asmDup' = DupEffect(before, after, k, payload)
       /\ asmIn' = [fid |-> fid, k |-> k, payload |-> payload]
       /\ asmRet' = IF complete
                    THEN [id |-> fid, data |-> JpegHeader \o JoinRange(after, 0, expected) \o EOI]
                    ELSE NoData
       /\ UNCHANGED asmDropped
       /\ IF complete
          THEN /\ asmOut' = [id |-> fid, data |-> JpegHeader \o JoinRange(after, 0, expected) \o EOI]
               /\ asmCur' = -1
               /\ asmFrags' = NoFrags
               /\ asmExpected' = -1
          ELSE /\ asmCur' = fid
               /\ asmFrags' = after
               /\ asmExpected' = expected
               /\ UNCHANGED asmOut

ModelBIngestChunk ==
  /\ AsmOnly
  /\ UNCHANGED asmHdr
  /\ asmKind = "modelB"
  /\ nChunks < MaxChunks
  /\ nChunks' = nChunks + 1
  /\ \E fid \in AsmFrameIds, k \in ChunkIds, payload \in Payloads, last \in BOOLEAN :
       ModelBIngest(fid, k, payload, last)
  /\ UNCHANGED asmKind

NextAsm == S2xIngestChunk \/ AdapterBHandlePayload \/ ModelBIngestChunk

---------------------------------------------------------------------------
(***************************************************************************)
(* One video adapter and the threads it starts, from construction to       *)
(* after stop().  Family A starts its keep-alive and receive threads in    *)
(* start(); family B starts its warm-up and watchdog threads in the        *)
(* constructor and its receive thread in start().                          *)
(***************************************************************************)
WkFamilies == {"A", "B"}

InitWk ==
  /\ wkFam \in WkFamilies
  /\ wkPhase = "new"
  /\ wkRunning = FALSE
  /\ wkFirstFrame = FALSE
  /\ wkQueued = 0
  /\ wkThreads = {}
  /\ wkKaStop = FALSE
  /\ wkBeat = 0

IdleWk ==
  /\ wkFam = "A"
  /\ wkPhase = "new"
  /\ wkRunning = FALSE
  /\ wkFirstFrame = FALSE
  /\ wkQueued = 0
  /\ wkThreads = {}
  /\ wkKaStop = FALSE
  /\ wkBeat = 0

\* __init__: family B sets _first_frame, starts the warm-up thread, sets
\* _running and starts the watchdog; family A creates a cleared _running event
\* and no thread.
WkConstruct ==
  /\ WkOnly
  /\ wkPhase = "new"
  /\ wkPhase' = "constructed"
  /\ IF wkFam = "B"
     THEN /\ wkFirstFrame' = TRUE
          /\ wkRunning' = TRUE
          /\ wkThreads' = {"warmup", "watchdog"}
     ELSE /\ wkRunning' = FALSE
          /\ UNCHANGED <<wkFirstFrame, wkThreads>>
  /\ UNCHANGED <<wkFam, wkQueued, wkKaStop, wkBeat>>

\* start(): family A sets _running and starts the keep-alive thread with a
\* fresh stop event; both families start the receive thread.
WkStart ==
  /\ WkOnly
  /\ wkPhase = "constructed"
  /\ wkPhase' = "started"
  /\ wkRunning' = IF wkFam = "A" THEN TRUE ELSE wkRunning
  /\ wkThreads' = wkThreads \cup (IF wkFam = "A" THEN {"keepalive", "rx"} ELSE {"rx"})
  /\ wkKaStop' = FALSE
  /\ wkQueued' = 0
  /\ UNCHANGED <<wkFam, wkFirstFrame, wkBeat>>

\* _rx_loop completes a frame and puts it on _frame_q (a full queue drops it).
WkRxFrame ==
  /\ WkOnly
  /\ "rx" \in wkThreads
  /\ wkRunning
  /\ wkQueued' = IF wkQueued < FrameQMax THEN wkQueued + 1 ELSE wkQueued
  /\ UNCHANGED <<wkFam, wkPhase, wkRunning, wkFirstFrame, wkThreads, wkKaStop, wkBeat>>

\* get_frame, called by the supervisor's frame loop while the adapter runs:
\* family B clears _first_frame on the first frame it hands out.
WkGetFrame ==
  /\ WkOnly
  /\ wkPhase = "started"
  /\ wkQueued > 0
  /\ wkQueued' = wkQueued - 1
  /\ wkFirstFrame' = FALSE
  /\ UNCHANGED <<wkFam, wkPhase, wkRunning, wkThreads, wkKaStop, wkBeat>>

\* stop(): family A sets the keep-alive stop event when there is one and
\* clears _running; family B sets _running False.  The joins have timeouts
\* and the socket is closed.
WkStop ==
  /\ WkOnly
  /\ wkPhase \in {"constructed", "started"}
  /\ wkPhase' = "stopped"
  /\ wkRunning' = FALSE
  /\ wkKaStop' = IF wkFam = "A" /\ wkPhase = "started" THEN TRUE ELSE wkKaStop
  /\ UNCHANGED <<wkFam, wkFirstFrame, wkQueued, wkThreads, wkBeat>>

\* The condition under which each thread's loop ends.
WkLoopEnds(t) ==
  CASE t = "rx" -> ~wkRunning
    [] t = "watchdog" -> ~wkRunning
    [] t = "warmup" -> ~wkFirstFrame
    [] t = "keepalive" -> wkKaStop

WkThreadExit ==
  /\ WkOnly
  /\ \E t \in wkThreads :
       /\ WkLoopEnds(t)
       /\ wkThreads' = wkThreads \ {t}
  /\ UNCHANGED <<wkFam, wkPhase, wkRunning, wkFirstFrame, wkQueued, wkKaStop, wkBeat>>

\* One more iteration of _warmup_loop: start command and frame request are
\* sent again (errors are swallowed), then it sleeps.
WkWarmupIteration ==
  /\ WkOnly
  /\ "warmup" \in wkThreads
  /\ ~WkLoopEnds("warmup")
  /\ wkBeat' = 1 - wkBeat
  /\ UNCHANGED <<wkFam, wkPhase, wkRunning, wkFirstFrame, wkQueued, wkThreads, wkKaStop>>

NextWk ==
  \/ WkConstruct
  \/ WkStart
  \/ WkRxFrame
  \/ WkGetFrame
  \/ WkStop
  \/ WkThreadExit
  \/ WkWarmupIteration

---------------------------------------------------------------------------
(***************************************************************************)
(* Shutdown of one session: the three places that stop the video receiver  *)
(* and the flight controller, and what FlightController.stop does to the   *)
(* RC adapter's socket.                                                    *)
(***************************************************************************)
ShHosts == {"cli", "web"}

RcFamilies == {"A", "B", "C"}

\* main.py offers the three families, web_server.py families A and B.
HostFamilies(h) == IF h = "cli" THEN RcFamilies ELSE {"A", "B"}

\* main.py: signal_handler up to its exit call.
SignalHandlerSteps == <<"video", "view", "join", "control", "exit">>

\* main.py: the finally block around CLIView.run.
FinallySteps == <<"control", "view", "video", "join">>

\* web_server.py: lifespan after the yield.
LifespanSteps == <<"overlay", "plugins", "control", "video", "pump">>

InitSh ==
  /\ shHost \in ShHosts
  /\ shFam \in HostFamilies(shHost)
  /\ shVideo \in (IF shHost = "web" THEN {TRUE} ELSE BOOLEAN)
  /\ shPath = "none"
  /\ shTodo = <<>>
  /\ shLog = <<>>
  /\ rcOwnOpen = TRUE
  /\ rcIsShared = FALSE
  /\ fcRunning = TRUE
  /\ fcStopped = FALSE
  /\ clPc = "top"
  /\ clFresh = FALSE
  /\ clRaised = FALSE
  /\ clPrevRaised = FALSE

IdleSh ==
  /\ shHost = "cli"
  /\ shFam = "A"
  /\ shVideo = FALSE
  /\ shPath = "none"
  /\ shTodo = <<>>
  /\ shLog = <<>>
  /\ rcOwnOpen = TRUE
  /\ rcIsShared = FALSE
  /\ fcRunning = TRUE
  /\ fcStopped = FALSE
  /\ clPc = "top"
  /\ clFresh = FALSE
  /\ clRaised = FALSE
  /\ clPrevRaised = FALSE

\* The variables of the control loop thread and those of the rest of the session.
clLoop == <<clPc, clFresh, clRaised, clPrevRaised>>

shSession == <<shHost, shFam, shVideo, shPath, shTodo, shLog, rcOwnOpen, rcIsShared,
               fcRunning, fcStopped>>

\* WifiUavRcProtocolAdapter.set_socket, called by the video supervisor when
\* it was given the RC adapter (web_server.py only): the adapter's own socket
\* is closed and the video socket taken over.
ShSetSocket ==
  /\ ShOnly
  /\ shPath = "none"
  /\ shHost = "web" /\ shFam = "B"
  /\ rcOwnOpen' = IF ~rcIsShared THEN FALSE ELSE rcOwnOpen
  /\ rcIsShared' = TRUE
  /\ UNCHANGED <<shHost, shFam, shVideo, shPath, shTodo, shLog, fcRunning, fcStopped>>
  /\ UNCHANGED clLoop

\* A shutdown begins: SIGINT/SIGTERM or the CLI view returning under main.py,
\* the lifespan resuming after its yield under the web server.
ShBegin ==
  /\ ShOnly
  /\ shPath = "none"
  /\ \E p \in (IF shHost = "cli" THEN {"signal", "cli_exit"} ELSE {"lifespan"}) :
       /\ shPath' = p
       /\ shTodo' = CASE p = "signal" -> SignalHandlerSteps
                      [] p = "cli_exit" -> FinallySteps
                      [] p = "lifespan" -> LifespanSteps
  /\ UNCHANGED <<shHost, shFam, shVideo, shLog, rcOwnOpen, rcIsShared, fcRunning, fcStopped>>
  /\ UNCHANGED clLoop

\* if video_receiver: video_receiver.stop()
ShStopVideo ==
  /\ ShOnly
  /\ shTodo # <<>> /\ Head(shTodo) = "video"
  /\ shTodo' = Tail(shTodo)
  /\ shLog' = IF shVideo THEN Append(shLog, "video") ELSE shLog
  /\ UNCHANGED <<shHost, shFam, shVideo, shPath, rcOwnOpen, rcIsShared, fcRunning, fcStopped>>
  /\ UNCHANGED clLoop

\* RC adapters that have a stop method: families B and C.
HasStop(f) == f \in {"B", "C"}

\* protocol.stop(): family B closes its socket unless it is shared, family C
\* stops its heartbeat and closes its socket.
ProtocolStopClosesOwn(f) ==
  CASE f = "B" -> ~rcIsShared
    [] f = "C" -> TRUE

\* FlightController.stop(): clear running, join the loop, then
\* protocol.stop() when the adapter has one.
ShStopController ==
  /\ ShOnly
  /\ shTodo # <<>> /\ Head(shTodo) = "control"
  /\ shTodo' = Tail(shTodo)
  /\ shLog' = Append(shLog, "control")
  /\ fcRunning' = FALSE
  /\ rcOwnOpen' = IF HasStop(shFam) /\ ProtocolStopClosesOwn(shFam) THEN FALSE ELSE rcOwnOpen
  /\ fcStopped' = TRUE
  /\ UNCHANGED <<shHost, shFam, shVideo, shPath, rcIsShared>>
  /\ UNCHANGED clLoop

\* The statements in between: stopping the view, the overlay broadcaster,
\* the plugins, the frame pump, joining the window thread.
ShOtherStep ==
  /\ ShOnly
  /\ shTodo # <<>> /\ Head(shTodo) \in {"view", "join", "overlay", "plugins", "pump"}
  /\ shTodo' = Tail(shTodo)
  /\ UNCHANGED <<shHost, shFam, shVideo, shPath, shLog, rcOwnOpen, rcIsShared,
                 fcRunning, fcStopped>>
  /\ UNCHANGED clLoop

\* The end of signal_handler: os._exit(0) when the window thread is still
\* alive, else sys.exit(0), whose SystemExit unwinds through the finally
\* block around CLIView.run.
ShExit ==
  /\ ShOnly
  /\ shTodo # <<>> /\ Head(shTodo) = "exit"
  /\ \E forced \in (IF shVideo THEN BOOLEAN ELSE {FALSE}) :
       shTodo' = IF forced THEN <<>> ELSE FinallySteps
  /\ UNCHANGED <<shHost, shFam, shVideo, shPath, shLog, rcOwnOpen, rcIsShared,
                 fcRunning, fcStopped>>
  /\ UNCHANGED clLoop

\* ---- _control_loop under the same session ------------------------------
\* while self.running: the flag is read at the top of every iteration.
ClTop ==
  /\ ShOnly
  /\ clPc = "top"
  /\ IF fcRunning
     THEN /\ clPc' = "update"
          /\ clFresh' = FALSE
          /\ clPrevRaised' = clRaised
          /\ clRaised' = FALSE
     ELSE /\ clPc' = "exited"
          /\ UNCHANGED <<clFresh, clRaised, clPrevRaised>>
  /\ UNCHANGED shSession

\* self.model.update(dt, {...})
ClUpdate ==
  /\ ShOnly
  /\ clPc = "update"
  /\ clFresh' = TRUE
  /\ clPc' = "build"
  /\ UNCHANGED <<clRaised, clPrevRaised>>
  /\ UNCHANGED shSession

\* Without the try around build and send an exception ends the thread.
ExceptionPropagates == "exited"

\* except Exception: pass, then the sleep at the end of the iteration.
OnException == "sleep"

\* packet = self.protocol.build_control_packet(self.model), which may raise.
ClBuild ==
  /\ ShOnly
  /\ clPc = "build"
  /\ \E raises \in BOOLEAN :
       /\ clPc' = IF raises THEN OnException ELSE "send"
       /\ clRaised' = raises
  /\ UNCHANGED <<clFresh, clPrevRaised>>
  /\ UNCHANGED shSession

\* self.protocol.send_control_packet(packet), which may raise.
ClSend ==
  /\ ShOnly
  /\ clPc = "send"
  /\ \E raises \in BOOLEAN :
       /\ clPc' = IF raises THEN OnException ELSE "sleep"
       /\ clRaised' = raises
  /\ UNCHANGED <<clFresh, clPrevRaised>>
  /\ UNCHANGED shSession

\* time.sleep(self.update_interval) and the guarded state log.
ClSleep ==
  /\ ShOnly
  /\ clPc = "sleep"
  /\ clPc' = "top"
  /\ UNCHANGED <<clFresh, clRaised, clPrevRaised>>
  /\ UNCHANGED shSession

NextSh ==
  \/ ShSetSocket
  \/ ShBegin
  \/ ShStopVideo
  \/ ShStopController
  \/ ShOtherStep
  \/ ShExit
  \/ ClTop
  \/ ClUpdate
  \/ ClBuild
  \/ ClSend
  \/ ClSleep

---------------------------------------------------------------------------
(***************************************************************************)
(* The control packet encoders of families A and C, byte by byte.          *)
(***************************************************************************)
EncFamilies == {"A", "C"}

RECURSIVE BitXor(_, _)
BitXor(a, b) ==
  IF a = 0 THEN b
  ELSE IF b = 0 THEN a
  ELSE (((a % 2) + (b % 2)) % 2) + 2 * BitXor(a \div 2, b \div 2)

RECURSIVE BitOr(_, _)
BitOr(a, b) ==
  IF a = 0 THEN b
  ELSE IF b = 0 THEN a
  ELSE Max(a % 2, b % 2) + 2 * BitOr(a \div 2, b \div 2)

\* x & 0xFF for x >= 0
Byte(x) == x % 256

RECURSIVE XorBytes(_)
XorBytes(data) == IF data = <<>> THEN 0 ELSE BitXor(Head(data), XorBytes(Tail(data)))

RECURSIVE SumBytes(_)
SumBytes(data) == IF data = <<>> THEN 0 ELSE Byte(Head(data) + SumBytes(Tail(data)))

\* The flags each model has and the bit each sets in the flags byte.
EncFlagNames(f) ==
  IF f = "A" THEN {"takeoff", "land", "stop"}
             ELSE {"takeoff", "land", "stop", "flip", "headless", "calibration"}

FlagBit(n) ==
  CASE n = "takeoff" -> 1
    [] n = "land" -> 2
    [] n = "stop" -> 4
    [] n = "flip" -> 8
    [] n = "headless" -> 16
    [] n = "calibration" -> 128

\* Flags that build_control_packet clears: all but the headless toggle.
OneShotFlags == {"takeoff", "land", "stop", "flip", "calibration"}

\* Stick values the model can hold: both ends, the centre, one value on
\* each side of it.
EncStickVals(f) == {RMin(f), RMin(f) + 305, RMid(f), RMid(f) + 177, RMax(f)}

EncDefaults(f) == [a \in AxisNames |-> RMid(f)]

\* S2xDroneModel.speed
S2xSpeed == 20

\* int(a / b) of Python for b > 0: the quotient truncated toward zero
TruncDiv(a, b) == IF a >= 0 THEN a \div b ELSE -((-a) \div b)

\* S2xRCProtocolAdapter._remap_to_full_range followed by int()
RemapToFullRange(v) ==
  IF v >= RMid("A")
  THEN 128 + TruncDiv((v - RMid("A")) * (255 - 128), RMax("A") - RMid("A"))
  ELSE TruncDiv((v - RMin("A")) * 128, RMid("A") - RMin("A"))

\* int(self._remap_to_full_range(drone_model.<axis>, drone_model)) & 0xFF
S2xAxisByte(v) == Byte(RemapToFullRange(v))

RECURSIVE FlagsByte(_)
FlagsByte(S) ==
  IF S = {} THEN 0
  ELSE LET n == CHOOSE x \in S : TRUE IN BitOr(FlagBit(n), FlagsByte(S \ {n}))

Zeros(n) == [i \in 1..n |-> 0]

\* A checksum that starts one byte early, at the speed byte.
S2xChecksumFromSpeed(body) == XorBytes(SubSeq(body, 2, 18))

\* for i in range(2, 18): chk ^= pkt[i]
S2xChecksum(body) == XorBytes(SubSeq(body, 3, 18))

\* S2xRCProtocolAdapter.build_control_packet
S2xBuildControlPacket(axes, flags, record) ==
  LET body == <<102, Byte(S2xSpeed),
                S2xAxisByte(axes["roll"]),
                S2xAxisByte(axes["pitch"]),
                S2xAxisByte(axes["throttle"]),
                S2xAxisByte(axes["yaw"]),
                FlagsByte(flags \cap {"takeoff", "land", "stop"}),
                IF record # 0 THEN BitOr(10, record * 4) ELSE 10>> \o Zeros(10)
  IN body \o <<Byte(S2xChecksum(body)), 153>>

\* CooingdvRcProtocolAdapter._clamp_axis
ClampAxis(v) == Byte(Max(0, Min(255, TruncDiv(v, Scale))))

\* CooingdvRcProtocolAdapter._build_flags
BuildFlags(flags) == Byte(FlagsByte(flags))

\* A checksum that adds the bytes.
AdditiveChecksum(data) == SumBytes(data)

\* CooingdvRcProtocolAdapter._calculate_checksum
CalculateChecksum(data) == Byte(XorBytes(data))

\* CooingdvRcProtocolAdapter.build_control_packet
CooingdvBuildControlPacket(axes, flags) ==
  LET data == <<ClampAxis(axes["roll"]), ClampAxis(axes["pitch"]),
                ClampAxis(axes["throttle"]), ClampAxis(axes["yaw"]),
                BuildFlags(flags)>>
  IN <<3, 102>> \o data \o <<CalculateChecksum(data), 153>>

NoModel == [axes |-> <<>>, flags |-> {}, record |-> 0]

InitEnc ==
  /\ encFam \in EncFamilies
  /\ encAxes = EncDefaults(encFam)
  /\ encFlagSet = {}
  /\ encRecord = 0
  /\ encPkt = <<>>
  /\ encFrom = NoModel
  /\ encInputs = 0

IdleEnc ==
  /\ encFam = "A"
  /\ encAxes = EncDefaults("A")
  /\ encFlagSet = {}
  /\ encRecord = 0
  /\ encPkt = <<>>
  /\ encFrom = NoModel
  /\ encInputs = 0

\* model.update leaves an axis at some value of its range.
EncSetAxis ==
  /\ EncOnly
  /\ encInputs < MaxEncInputs
  /\ \E a \in AxisNames, v \in EncStickVals(encFam) :
       encAxes' = [encAxes EXCEPT ![a] = v]
  /\ encInputs' = encInputs + 1
  /\ UNCHANGED <<encFam, encFlagSet, encRecord, encPkt, encFrom>>

\* takeoff(), land(), emergency_stop(), flip(), calibrate_gyro() set a flag;
\* toggle_headless() flips one.
EncSetFlag ==
  /\ EncOnly
  /\ encInputs < MaxEncInputs
  /\ \E n \in EncFlagNames(encFam) :
       encFlagSet' = IF n = "headless" /\ n \in encFlagSet
                     THEN encFlagSet \ {n}
                     ELSE encFlagSet \cup {n}
  /\ encInputs' = encInputs + 1
  /\ UNCHANGED <<encFam, encAxes, encRecord, encPkt, encFrom>>

\* S2xDroneModel.toggle_record
EncToggleRecord ==
  /\ EncOnly
  /\ encFam = "A"
  /\ encInputs < MaxEncInputs
  /\ encRecord' = IF encRecord = 0 THEN 1 ELSE 0
  /\ encInputs' = encInputs + 1
  /\ UNCHANGED <<encFam, encAxes, encFlagSet, encPkt, encFrom>>

\* build_control_packet: the packet is built, then the one-shot flags are
\* cleared.
EncBuild ==
  /\ EncOnly
  /\ encPkt' = IF encFam = "A"
               THEN S2xBuildControlPacket(encAxes, encFlagSet, encRecord)
               ELSE CooingdvBuildControlPacket(encAxes, encFlagSet)
  /\ encFrom' = [axes |-> encAxes, flags |-> encFlagSet, record |-> encRecord]
  /\ encFlagSet' = encFlagSet \ OneShotFlags
  /\ UNCHANGED <<encFam, encAxes, encRecord, encInputs>>

NextEnc == EncSetAxis \/ EncSetFlag \/ EncToggleRecord \/ EncBuild

---------------------------------------------------------------------------
(***************************************************************************)
(* The family B control encoder, byte by byte, and send_control_packet     *)
(* after it: the control loop builds a packet and then sends it; sendto    *)
(* raises OSError while the shared socket is closed and the adapter        *)
(* swallows it.                                                            *)
(***************************************************************************)
CtrModulus == 65536

\* int.to_bytes(2, "little")
LE16(n) == <<n % 256, n \div 256>>

\* int.from_bytes(b, "little") of the two bytes at 0-based offset off
ReadLE16(pkt, off) == pkt[off + 1] + 256 * pkt[off + 2]

HEADER == <<239, 2, 124, 0, 2, 2, 0, 1, 2, 0, 0, 0>>
COUNTER1_SUFFIX == <<0, 0, 20, 0, 102, 20>>
CONTROL_SUFFIX == Zeros(10)
CHECKSUM_SUFFIX == <<153>> \o Zeros(44) \o <<50, 75, 20, 45, 0, 0>>
COUNTER2_SUFFIX == <<0, 0, 0, 0, 0, 0, 1, 0, 0, 0, 20, 0, 0, 0, 255, 255, 255, 255>>
COUNTER3_SUFFIX == <<0, 0, 0, 0, 0, 0, 3, 0, 0, 0, 16, 0, 0, 0>>

EbOneShot == {"takeoff", "stop", "land", "calibration"}

\* the if / elif chain of build_control_packet
Command(flags) ==
  IF "takeoff" \in flags THEN 1
  ELSE IF "stop" \in flags THEN 2
  ELSE IF "land" \in flags THEN 2
  ELSE IF "calibration" \in flags THEN 4
  ELSE 0

\* The command byte that stands for one flag.
FlagCommand(n) ==
  CASE n = "takeoff" -> 1
    [] n = "stop" -> 2
    [] n = "land" -> 2
    [] n = "calibration" -> 4

Headless(flags) == IF "headless" \in flags THEN 3 ELSE 2

\* int(drone_model.<axis>) & 0xFF
WifiUavAxisByte(x) == Byte(x)

Controls(axis, flags) ==
  <<WifiUavAxisByte(axis), WifiUavAxisByte(axis), WifiUavAxisByte(axis),
    WifiUavAxisByte(axis), Byte(Command(flags)), Byte(Headless(flags))>>

\* WifiUavRcProtocolAdapter.build_control_packet: the bytes it returns
WifiUavBuildControlPacket(ctr, axis, flags) ==
  HEADER
    \o LE16(ctr[1]) \o COUNTER1_SUFFIX
    \o Controls(axis, flags)
    \o CONTROL_SUFFIX
    \o <<XorBytes(Controls(axis, flags))>>
    \o CHECKSUM_SUFFIX
    \o LE16(ctr[2]) \o COUNTER2_SUFFIX
    \o LE16(ctr[3]) \o COUNTER3_SUFFIX

\* 0-based offsets of the fields in the packet
Ctr1Offset == Len(HEADER)
CommandOffset == Ctr1Offset + 2 + Len(COUNTER1_SUFFIX) + 4
ChecksumOffset == CommandOffset + 2 + Len(CONTROL_SUFFIX)
Ctr2Offset == ChecksumOffset + 1 + Len(CHECKSUM_SUFFIX)
Ctr3Offset == Ctr2Offset + 2 + Len(COUNTER2_SUFFIX)

\* What the aircraft reads from a packet.
Decode(pkt) ==
  [ctr |-> <<ReadLE16(pkt, Ctr1Offset), ReadLE16(pkt, Ctr2Offset), ReadLE16(pkt, Ctr3Offset)>>,
   cmd |-> pkt[CommandOffset + 1]]

CtrFrom(c) == <<c % CtrModulus, (c + 1) % CtrModulus, (c + 2) % CtrModulus>>

InitEb ==
  /\ ebStart \in {0, CtrModulus - MaxBuilds}
  /\ ebCtr = CtrFrom(ebStart)
  /\ ebAxis \in {StickRange("B").min, StickRange("B").mid, StickRange("B").max}
  /\ ebFlags = {}
  /\ ebPc = "build"
  /\ ebPkt = <<>>
  /\ ebBuilt = 0
  /\ ebEmitted = <<>>
  /\ ebCarried = {}
  /\ ebLost = {}
  /\ ebUnconveyed = {}

IdleEb ==
  /\ ebStart = 0
  /\ ebCtr = CtrFrom(0)
  /\ ebAxis = StickRange("B").mid
  /\ ebFlags = {}
  /\ ebPc = "build"
  /\ ebPkt = <<>>
  /\ ebBuilt = 0
  /\ ebEmitted = <<>>
  /\ ebCarried = {}
  /\ ebLost = {}
  /\ ebUnconveyed = {}

\* model.takeoff() / model.land(), called by the web socket handler at any time.
EbSetFlag ==
  /\ EbOnly
  /\ ebBuilt < MaxBuilds
  /\ \E n \in {"takeoff", "land"} :
       /\ n \notin ebFlags
       /\ ebFlags' = ebFlags \cup {n}
  /\ UNCHANGED <<ebStart, ebCtr, ebAxis, ebPc, ebPkt, ebBuilt, ebEmitted, ebCarried,
                 ebLost, ebUnconveyed>>

\* build_control_packet: the counters are read and advanced, the packet is
\* assembled and the one-shot flags are cleared.
EbBuild ==
  /\ EbOnly
  /\ ebPc = "build"
  /\ ebBuilt < MaxBuilds
  /\ ebPkt' = WifiUavBuildControlPacket(ebCtr, ebAxis, ebFlags)
  /\ ebCtr' = <<(ebCtr[1] + 1) % CtrModulus, (ebCtr[2] + 1) % CtrModulus,
                (ebCtr[3] + 1) % CtrModulus>>
  /\ ebCarried' = ebFlags \cap EbOneShot
  /\ ebUnconveyed' = ebUnconveyed \cup
                       {n \in ebFlags \cap EbOneShot : FlagCommand(n) # Command(ebFlags)}
  /\ ebFlags' = ebFlags \ EbOneShot
  /\ ebBuilt' = ebBuilt + 1
  /\ ebPc' = "send"
  /\ UNCHANGED <<ebStart, ebAxis, ebEmitted, ebLost>>

\* send_control_packet: sendto transmits the packet, or raises OSError and
\* the packet is skipped.
EbSend ==
  /\ EbOnly
  /\ ebPc = "send"
  /\ \E ok \in BOOLEAN :
       IF ok
       THEN /\ ebEmitted' = Append(ebEmitted, Decode(ebPkt))
            /\ UNCHANGED ebLost
       ELSE /\ ebLost' = ebLost \cup ebCarried
            /\ UNCHANGED ebEmitted
  /\ ebPc' = "build"
  /\ UNCHANGED <<ebStart, ebCtr, ebAxis, ebFlags, ebPkt, ebBuilt, ebCarried, ebUnconveyed>>

NextEb == EbSetFlag \/ EbBuild \/ EbSend

---------------------------------------------------------------------------
(***************************************************************************)
(* The axis byte of each control encoder, as a function of the model's     *)
(* axis attribute.                                                         *)
(***************************************************************************)
SatFamilies == {"A", "B", "C"}

\* Axis attributes from SatMargin raw units below 0 to SatMargin above 255,
\* in steps of half a raw unit.
RawAxisInputs ==
  {k * (Scale \div 2) : k \in (-2 * SatMargin)..(2 * (255 + SatMargin))}

\* The integer each encoder derives from the attribute before it makes a byte
AxisInt(f, v) == IF f = "A" THEN RemapToFullRange(v) ELSE TruncDiv(v, Scale)

\* The axis byte each encoder writes
AxisByte(f, v) ==
  CASE f = "A" -> S2xAxisByte(v)
    [] f = "B" -> WifiUavAxisByte(TruncDiv(v, Scale))
    [] f = "C" -> ClampAxis(v)

Saturate(x) == Min(255, Max(0, x))

InitSat ==
  /\ satFam \in SatFamilies
  /\ satRaw \in RawAxisInputs
  /\ satByte = -1

IdleSat ==
  /\ satFam = "A"
  /\ satRaw = 0
  /\ satByte = -1

\* build_control_packet writes the axis byte
SatEncode ==
  /\ SatOnly
  /\ satByte = -1
  /\ satByte' = AxisByte(satFam, satRaw)
  /\ UNCHANGED <<satFam, satRaw>>

NextSat == SatEncode

---------------------------------------------------------------------------
(***************************************************************************)
(* The frame requests of the family B video adapter: what handle_payload   *)
(* and the watchdog send, and what they leave in the adapter.  The request *)
(* templates live in utils/wifi_uav_packets.py, which the source tree does *)
(* not hold; they are fixed byte strings, represented here by strings of   *)
(* TemplateByte just long enough for the offsets that are patched.         *)
(***************************************************************************)
TemplateByte == 170
REQUEST_A == [i \in 1..14 |-> TemplateByte]
REQUEST_B == [i \in 1..109 |-> TemplateByte]

\* rqst[base], rqst[base + 1] = lo, hi  (base counted from 0)
Patch(rqst, base, fid) ==
  [rqst EXCEPT ![base + 1] = fid % 256, ![base + 2] = (fid \div 256) % 256]

\* WifiUavVideoProtocolAdapter._send_frame_request: the two datagrams it sends
SendFrameRequest(fid) ==
  <<Patch(REQUEST_A, 12, fid),
    Patch(Patch(Patch(REQUEST_B, 12, fid), 88, fid), 107, fid)>>

\* the frame id expected after frame k, without the mask
NextFidUnmasked(k) == k + 1

\* (frame_id + 1) & 0xFFFF
NextFid(k) == Wrap16(k + 1)

\* the frame id itself as the argument of the watchdog's request
SameFid(fid) == fid

\* (self._current_fid - 1) & 0xFFFF, the argument of the watchdog's request
PrevFid(fid) == Wrap16(fid - 1)

\* Length and byte 1 of a family B datagram
WifiUavHeaders == [len : {55, 56}, b1 : {0, 1}]
NoHeaderB == [len |-> -1, b1 |-> -1]

\* every datagram passes the test of line 124
WifiUavRejectsNothing(hdr) == FALSE

\* len(payload) < 56 or payload[1] != 0x01
WifiUavRejects(hdr) == hdr.len < 56 \/ hdr.b1 # 1

InitRq ==
  /\ rqFid = 1
  /\ rqFrags = {}
  /\ rqRetry = 0
  /\ rqHadRetry = FALSE
  /\ rqDropped = 0
  /\ rqAttempts = 0
  /\ rqSent = <<>>
  /\ rqRet = -1
  /\ rqStep = "none"
  /\ rqSteps = 0
  /\ rqOk = 0
  /\ rqRxTs = 0
  /\ rqReqTs = 0
  /\ rqHdr = NoHeaderB

IdleRq == InitRq

\* handle_payload(payload) in the receive thread
RqHandle(d) ==
  IF ~d.valid
  THEN /\ rqRet' = -1
       /\ rqSent' = <<>>
       /\ UNCHANGED <<rqFid, rqFrags, rqRetry, rqHadRetry, rqDropped, rqAttempts>>
       /\ UNCHANGED <<rqOk, rqRxTs, rqReqTs>>
  ELSE
    LET skipped == d.fid # rqFid
        stored == (IF skipped THEN {} ELSE rqFrags) \cup {d.frag}
    IN /\ rqRetry' = 0
       /\ rqDropped' = IF skipped THEN rqDropped + 1 ELSE rqDropped
       /\ rqRxTs' = rqSteps'
       /\ UNCHANGED rqAttempts
       /\ IF ~d.last
          THEN /\ rqFid' = d.fid
               /\ rqFrags' = stored
               /\ rqRet' = -1
               /\ rqSent' = <<>>
               /\ UNCHANGED <<rqHadRetry, rqOk, rqReqTs>>
          ELSE /\ rqRet' = d.fid
               /\ rqOk' = rqOk + 1
               /\ rqHadRetry' = FALSE
               /\ rqFrags' = {}
               /\ rqSent' = SendFrameRequest(d.fid)
               /\ rqReqTs' = rqSteps'
               /\ rqFid' = NextFid(d.fid)

RqHandlePayload ==
  /\ RqOnly
  /\ rqSteps < MaxReqSteps
  /\ rqSteps' = rqSteps + 1
  /\ rqStep' = "rx"
  /\ \E hdr \in WifiUavHeaders, d \in Datagrams :
       /\ d.valid = ~WifiUavRejects(hdr)
       /\ rqHdr' = hdr
       /\ RqHandle(d)

\* _watchdog_loop: FRAME_TIMEOUT has passed since the last request and
\* _retry_cnt < MAX_RETRIES
RqWatchdogRetry ==
  /\ RqOnly
  /\ rqSteps < MaxReqSteps
  /\ rqRetry < MAX_RETRIES
  /\ rqSteps' = rqSteps + 1
  /\ rqStep' = "retry"
  /\ rqSent' = SendFrameRequest(PrevFid(rqFid))
  /\ rqRetry' = rqRetry + 1
  /\ rqAttempts' = rqAttempts + 1
  /\ rqHadRetry' = TRUE
  /\ rqRet' = -1
  /\ rqReqTs' = rqSteps'
  /\ UNCHANGED <<rqFid, rqFrags, rqDropped, rqOk, rqRxTs, rqHdr>>

\* _watchdog_loop: FRAME_TIMEOUT has passed and the retries are used up
RqWatchdogDrop ==
  /\ RqOnly
  /\ rqSteps < MaxReqSteps
  /\ ~(rqRetry < MAX_RETRIES)
  /\ rqSteps' = rqSteps + 1
  /\ rqStep' = "drop"
  /\ rqDropped' = rqDropped + 1
  /\ rqFrags' = {}
  /\ rqRetry' = 0
  /\ rqFid' = Wrap16(rqFid + 1)
  /\ rqSent' = SendFrameRequest(PrevFid(rqFid'))
  /\ rqHadRetry' = FALSE
  /\ rqRet' = -1
  /\ rqReqTs' = rqSteps'
  /\ UNCHANGED <<rqAttempts, rqOk, rqRxTs, rqHdr>>

NextRq == RqHandlePayload \/ RqWatchdogRetry \/ RqWatchdogDrop

---------------------------------------------------------------------------
(***************************************************************************)
(* The family B adapter with its two threads interleaved statement by      *)
(* statement: handle_payload in the receive thread, the body of            *)
(* _watchdog_loop in the watchdog thread.  Neither takes a lock; an        *)
(* augmented assignment (x += 1) is a load followed by a store.            *)
(***************************************************************************)
RaceFids == {1, 2}
RaceDatagrams == [fid : RaceFids, frag : {0}, last : BOOLEAN]
NoDatagram == [fid |-> -1, frag |-> -1, last |-> FALSE]

InitRb ==
  /\ rbFid = 1
  /\ rbFrags = {}
  /\ rbRetry = 0
  /\ rbHadRetry = FALSE
  /\ rbOk = 0
  /\ rbDropped = 0
  /\ rbAttempts = 0
  /\ rbSuccesses = 0
  /\ rbRxPc = "idle"
  /\ rbRxD = NoDatagram
  /\ rbRxTmp = 0
  /\ rbWdPc = "idle"
  /\ rbWdTmp = 0
  /\ rbRxN = 0
  /\ rbWdN = 0

IdleRb == InitRb

rbShared == <<rbFid, rbFrags, rbRetry, rbHadRetry, rbOk, rbDropped, rbAttempts, rbSuccesses>>
rbWdLocal == <<rbWdPc, rbWdTmp, rbWdN>>
rbRxLocal == <<rbRxPc, rbRxD, rbRxTmp, rbRxN>>

\* ---- handle_payload, lines 124-173 --------------------------------------
\* a valid datagram arrives: self._retry_cnt = 0 (line 128)
RbRxBegin ==
  /\ RbOnly
  /\ rbRxPc = "idle"
  /\ rbRxN < MaxRaceDatagrams
  /\ rbRxN' = rbRxN + 1
  /\ \E d \in RaceDatagrams : rbRxD' = d
  /\ rbRetry' = 0
  /\ rbRxPc' = "check"
  /\ UNCHANGED <<rbFid, rbFrags, rbHadRetry, rbOk, rbDropped, rbAttempts, rbSuccesses, rbRxTmp>>
  /\ UNCHANGED rbWdLocal

\* if frame_id != self._current_fid (line 133); load of frames_dropped (134)
RbRxCheck ==
  /\ RbOnly
  /\ rbRxPc = "check"
  /\ IF rbRxD.fid # rbFid
     THEN rbRxPc' = "dropStore" /\ rbRxTmp' = rbDropped
     ELSE rbRxPc' = "store" /\ UNCHANGED rbRxTmp
  /\ UNCHANGED <<rbShared, rbRxD, rbRxN, rbWdLocal>>

\* store of frames_dropped (134)
RbRxDropStore ==
  /\ RbOnly
  /\ rbRxPc = "dropStore"
  /\ rbDropped' = rbRxTmp + 1
  /\ rbRxPc' = "resync"
  /\ UNCHANGED <<rbFid, rbFrags, rbRetry, rbHadRetry, rbOk, rbAttempts, rbSuccesses>>
  /\ UNCHANGED <<rbRxD, rbRxTmp, rbRxN, rbWdLocal>>

\* self._fragments.clear(); self._current_fid = frame_id (137-138)
RbRxResync ==
  /\ RbOnly
  /\ rbRxPc = "resync"
  /\ rbFrags' = {}
  /\ rbFid' = rbRxD.fid
  /\ rbRxPc' = "store"
  /\ UNCHANGED <<rbRetry, rbHadRetry, rbOk, rbDropped, rbAttempts, rbSuccesses>>
  /\ UNCHANGED <<rbRxD, rbRxTmp, rbRxN, rbWdLocal>>

\* self._fragments.setdefault(frag_id, payload[56:]) (141); not the last
\* fragment: return None (145-146)
RbRxStore ==
  /\ RbOnly
  /\ rbRxPc = "store"
  /\ rbFrags' = rbFrags \cup {rbRxD.frag}
  /\ rbRxPc' = IF rbRxD.last THEN "assemble" ELSE "idle"
  /\ UNCHANGED <<rbFid, rbRetry, rbHadRetry, rbOk, rbDropped, rbAttempts, rbSuccesses>>
  /\ UNCHANGED <<rbRxD, rbRxTmp, rbRxN, rbWdLocal>>

\* the frame is built from self._fragments; self.frames_ok += 1 (149-153)
RbRxAssemble ==
  /\ RbOnly
  /\ rbRxPc = "assemble"
  /\ rbOk' = rbOk + 1
  /\ rbRxPc' = "retryFlag"
  /\ UNCHANGED <<rbFid, rbFrags, rbRetry, rbHadRetry, rbDropped, rbAttempts, rbSuccesses>>
  /\ UNCHANGED <<rbRxD, rbRxTmp, rbRxN, rbWdLocal>>

\* if self._had_retry: self.retry_successes += 1 (156-157)
RbRxRetryFlag ==
  /\ RbOnly
  /\ rbRxPc = "retryFlag"
  /\ IF rbHadRetry
     THEN rbSuccesses' = rbSuccesses + 1 /\ rbRxPc' = "clearFlag"
     ELSE UNCHANGED rbSuccesses /\ rbRxPc' = "clear"
  /\ UNCHANGED <<rbFid, rbFrags, rbRetry, rbHadRetry, rbOk, rbDropped, rbAttempts>>
  /\ UNCHANGED <<rbRxD, rbRxTmp, rbRxN, rbWdLocal>>

\* self._had_retry = False (161)
RbRxClearFlag ==
  /\ RbOnly
  /\ rbRxPc = "clearFlag"
  /\ rbHadRetry' = FALSE
  /\ rbRxPc' = "clear"
  /\ UNCHANGED <<rbFid, rbFrags, rbRetry, rbOk, rbDropped, rbAttempts, rbSuccesses>>
  /\ UNCHANGED <<rbRxD, rbRxTmp, rbRxN, rbWdLocal>>

\* self._fragments.clear(); self._send_frame_request(frame_id) (168-169)
RbRxClear ==
  /\ RbOnly
  /\ rbRxPc = "clear"
  /\ rbFrags' = {}
  /\ rbRxPc' = "advance"
  /\ UNCHANGED <<rbFid, rbRetry, rbHadRetry, rbOk, rbDropped, rbAttempts, rbSuccesses>>
  /\ UNCHANGED <<rbRxD, rbRxTmp, rbRxN, rbWdLocal>>

\* self._current_fid = (frame_id + 1) & 0xFFFF; return frame (170-173)
RbRxAdvance ==
  /\ RbOnly
  /\ rbRxPc = "advance"
  /\ rbFid' = NextFid(rbRxD.fid)
  /\ rbRxPc' = "idle"
  /\ UNCHANGED <<rbFrags, rbRetry, rbHadRetry, rbOk, rbDropped, rbAttempts, rbSuccesses>>
  /\ UNCHANGED <<rbRxD, rbRxTmp, rbRxN, rbWdLocal>>

\* ---- _watchdog_loop body, lines 297-320 ---------------------------------
\* FRAME_TIMEOUT has passed; if self._retry_cnt < self.MAX_RETRIES (303):
\* the request is sent and _retry_cnt loaded (306-307), or frames_dropped
\* is loaded (311)
RbWdTimeout ==
  /\ RbOnly
  /\ rbWdPc = "idle"
  /\ rbWdN < MaxRaceTimeouts
  /\ rbWdN' = rbWdN + 1
  /\ IF rbRetry < MAX_RETRIES
     THEN rbWdPc' = "retryStore" /\ rbWdTmp' = rbRetry
     ELSE rbWdPc' = "dropStore" /\ rbWdTmp' = rbDropped
  /\ UNCHANGED <<rbShared, rbRxLocal>>

\* store of _retry_cnt (307); self.retry_attempts += 1 (308)
RbWdRetryStore ==
  /\ RbOnly
  /\ rbWdPc = "retryStore"
  /\ rbRetry' = rbWdTmp + 1
  /\ rbAttempts' = rbAttempts + 1
  /\ rbWdPc' = "setFlag"
  /\ UNCHANGED <<rbFid, rbFrags, rbHadRetry, rbOk, rbDropped, rbSuccesses>>
  /\ UNCHANGED <<rbWdTmp, rbWdN, rbRxLocal>>

\* self._had_retry = True (309)
RbWdSetFlag ==
  /\ RbOnly
  /\ rbWdPc = "setFlag"
  /\ rbHadRetry' = TRUE
  /\ rbWdPc' = "idle"
  /\ UNCHANGED <<rbFid, rbFrags, rbRetry, rbOk, rbDropped, rbAttempts, rbSuccesses>>
  /\ UNCHANGED <<rbWdTmp, rbWdN, rbRxLocal>>

\* store of frames_dropped (311)
RbWdDropStore ==
  /\ RbOnly
  /\ rbWdPc = "dropStore"
  /\ rbDropped' = rbWdTmp + 1
  /\ rbWdPc' = "clear"
  /\ UNCHANGED <<rbFid, rbFrags, rbRetry, rbHadRetry, rbOk, rbAttempts, rbSuccesses>>
  /\ UNCHANGED <<rbWdTmp, rbWdN, rbRxLocal>>

\* self._fragments.clear(); self._retry_cnt = 0 (316-317)
RbWdClear ==
  /\ RbOnly
  /\ rbWdPc = "clear"
  /\ rbFrags' = {}
  /\ rbRetry' = 0
  /\ rbWdPc' = "advance"
  /\ UNCHANGED <<rbFid, rbHadRetry, rbOk, rbDropped, rbAttempts, rbSuccesses>>
  /\ UNCHANGED <<rbWdTmp, rbWdN, rbRxLocal>>

\* self._current_fid = (self._current_fid + 1) & 0xFFFF; the request is
\* sent; self._had_retry = False (318-320)
RbWdAdvance ==
  /\ RbOnly
  /\ rbWdPc = "advance"
  /\ rbFid' = Wrap16(rbFid + 1)
  /\ rbHadRetry' = FALSE
  /\ rbWdPc' = "idle"
  /\ UNCHANGED <<rbFrags, rbRetry, rbOk, rbDropped, rbAttempts, rbSuccesses>>
  /\ UNCHANGED <<rbWdTmp, rbWdN, rbRxLocal>>

NextRb ==
  \/ RbRxBegin \/ RbRxCheck \/ RbRxDropStore \/ RbRxResync \/ RbRxStore
  \/ RbRxAssemble \/ RbRxRetryFlag \/ RbRxClearFlag \/ RbRxClear \/ RbRxAdvance
  \/ RbWdTimeout \/ RbWdRetryStore \/ RbWdSetFlag \/ RbWdDropStore
  \/ RbWdClear \/ RbWdAdvance

---------------------------------------------------------------------------
(***************************************************************************)
(* The family C RC adapter: the heartbeat thread started by __init__, the  *)
(* adapter's stop(), and the control loop that uses the same socket.       *)
(***************************************************************************)
InitHb ==
  /\ hbPhase = "running"
  /\ hbRunning = TRUE
  /\ hbStopEv = FALSE
  /\ hbPc = "check"
  /\ hbSockOpen = TRUE
  /\ hbBeat = FALSE
  /\ hbBeats = 0
  /\ hbLate = FALSE
  /\ hbLoop = "unstarted"
  /\ hbCtlSend = "none"

IdleHb == InitHb

hbCtl == <<hbLoop, hbCtlSend>>
hbGhost == <<hbBeat, hbBeats, hbLate>>

\* the loop condition that also asks for a running control loop
HeartbeatWithControlLoop == hbRunning /\ ~hbStopEv /\ hbLoop = "running"

\* while self._heartbeat_running and not self._heartbeat_stop.is_set()
HeartbeatLoopCondition == hbRunning /\ ~hbStopEv

\* _heartbeat_loop: the while test
HbCheck ==
  /\ HbOnly
  /\ hbPc = "check"
  /\ hbPc' = IF HeartbeatLoopCondition THEN "send" ELSE "exited"
  /\ UNCHANGED <<hbPhase, hbRunning, hbStopEv, hbSockOpen, hbGhost, hbCtl>>

\* self.sock.sendto(heartbeat_packet, ...); on a closed socket it raises
\* OSError, which the loop ignores
HbSend ==
  /\ HbOnly
  /\ hbPc = "send"
  /\ hbPc' = "wait"
  /\ IF hbSockOpen
     THEN /\ hbBeat' = ~hbBeat
          /\ hbBeats' = Min(hbBeats + 1, MaxBeats)
          /\ hbLate' = (hbLate \/ hbPhase = "stopped")
     ELSE UNCHANGED hbGhost
  /\ UNCHANGED <<hbPhase, hbRunning, hbStopEv, hbSockOpen, hbCtl>>

\* self._heartbeat_stop.wait(HEARTBEAT_INTERVAL) returns: the interval has
\* passed or the event is set
HbWait ==
  /\ HbOnly
  /\ hbPc = "wait"
  /\ hbPc' = "check"
  /\ UNCHANGED <<hbPhase, hbRunning, hbStopEv, hbSockOpen, hbGhost, hbCtl>>

HbThreadStep == HbCheck \/ HbSend \/ HbWait

\* stop() -> stop_heartbeat(): _heartbeat_running = False; _heartbeat_stop.set()
HbStopSetFlags ==
  /\ HbOnly
  /\ hbPhase = "running"
  /\ hbPhase' = "flagged"
  /\ hbRunning' = FALSE
  /\ hbStopEv' = TRUE
  /\ UNCHANGED <<hbPc, hbSockOpen, hbGhost, hbCtl>>

\* self._heartbeat_thread.join(timeout=2.0) returns: the thread has ended or
\* the two seconds have passed
HbStopJoin ==
  /\ HbOnly
  /\ hbPhase = "flagged"
  /\ hbPhase' = "joined"
  /\ UNCHANGED <<hbRunning, hbStopEv, hbPc, hbSockOpen, hbGhost, hbCtl>>

\* self.sock.close(); stop() returns
HbStopClose ==
  /\ HbOnly
  /\ hbPhase = "joined"
  /\ hbPhase' = "stopped"
  /\ hbSockOpen' = FALSE
  /\ UNCHANGED <<hbRunning, hbStopEv, hbPc, hbGhost, hbCtl>>

\* FlightController.start() / stop(): the control loop thread begins or ends
HbLoopStartStop ==
  /\ HbOnly
  /\ \/ hbLoop = "unstarted" /\ hbLoop' = "running"
     \/ hbLoop = "running" /\ hbLoop' = "stopped"
  /\ UNCHANGED <<hbPhase, hbRunning, hbStopEv, hbPc, hbSockOpen, hbGhost, hbCtlSend>>

\* send_control_packet from the control loop: sent, or OSError swallowed
HbLoopSend ==
  /\ HbOnly
  /\ hbLoop = "running"
  /\ \E r \in {"sent", "failed"} :
       /\ (r = "sent") => hbSockOpen
       /\ hbCtlSend' = r
  /\ UNCHANGED <<hbPhase, hbRunning, hbStopEv, hbPc, hbSockOpen, hbGhost, hbLoop>>

NextHb ==
  \/ HbCheck \/ HbSend \/ HbWait
  \/ HbStopSetFlags \/ HbStopJoin \/ HbStopClose
  \/ HbLoopStartStop \/ HbLoopSend

---------------------------------------------------------------------------
\* Family C video transport: _rx_loop and _reconnect of
\* CooingdvVideoProtocolAdapter, against a stream that comes and goes.

InitCv ==
  /\ cvPhase = "new"
  /\ cvRunning = FALSE
  /\ cvCap = "none"
  /\ cvPc = "unstarted"
  /\ cvFrom = "none"
  /\ cvAttempt = 0
  /\ cvStreamUp \in BOOLEAN
  /\ cvOpens = 0

IdleCv == InitCv /\ cvStreamUp = FALSE

\* _open_stream(): cv2.VideoCapture(url); isOpened() decides
OpenStream == IF cvStreamUp THEN "open" ELSE "none"

\* start(): self._running = True, the initial _open_stream(), thread start
CvStart ==
  /\ CvOnly
  /\ cvPhase = "new"
  /\ cvPhase' = "running"
  /\ cvRunning' = TRUE
  /\ cvCap' = OpenStream
  /\ cvPc' = "top"
  /\ UNCHANGED <<cvFrom, cvAttempt, cvStreamUp, cvOpens>>

\* _rx_loop: while self._running; cap is None -> _reconnect(), else read
CvLoopTop ==
  /\ CvOnly
  /\ cvPc = "top"
  /\ IF ~cvRunning THEN cvPc' = "exited" /\ UNCHANGED cvFrom
     ELSE IF cvCap = "none" THEN cvPc' = "reconnect" /\ cvFrom' = "top"
     ELSE cvPc' = "read" /\ UNCHANGED cvFrom
  /\ UNCHANGED <<cvPhase, cvRunning, cvCap, cvAttempt, cvStreamUp, cvOpens>>

\* cap.read(): a frame; no frame before FRAME_TIMEOUT (continue); no frame
\* after FRAME_TIMEOUT, or cv2.error (both call _reconnect and continue)
CvRead ==
  /\ CvOnly
  /\ cvPc = "read"
  /\ \/ /\ cvStreamUp /\ cvCap = "open"
        /\ cvPc' = "top"
        /\ UNCHANGED cvFrom
     \/ /\ ~cvStreamUp \/ cvCap = "none"
        /\ \/ cvPc' = "top" /\ UNCHANGED cvFrom
           \/ cvPc' = "reconnect" /\ cvFrom' = "read"
  /\ UNCHANGED <<cvPhase, cvRunning, cvCap, cvAttempt, cvStreamUp, cvOpens>>

\* _reconnect(): _close_stream(), sleep, then the for loop begins
CvReconnectClose ==
  /\ CvOnly
  /\ cvPc = "reconnect"
  /\ cvCap' = "none"
  /\ cvAttempt' = 0
  /\ cvPc' = "for"
  /\ UNCHANGED <<cvPhase, cvRunning, cvFrom, cvStreamUp, cvOpens>>

\* where _rx_loop goes on after _reconnect() returned False: the call at the
\* loop top sleeps RECONNECT_DELAY and continues, the others continue
AfterFailedReconnect == IF cvFrom = "top" THEN "retry_sleep" ELSE "top"

\* for attempt in range(MAX_RECONNECT_ATTEMPTS): if not self._running:
\* return False; the loop running out returns False as well
CvReconnectFor ==
  /\ CvOnly
  /\ cvPc = "for"
  /\ cvPc' = IF cvAttempt < MAX_RECONNECT_ATTEMPTS /\ cvRunning
               THEN "open" ELSE AfterFailedReconnect
  /\ UNCHANGED <<cvPhase, cvRunning, cvCap, cvFrom, cvAttempt, cvStreamUp, cvOpens>>

\* if self._open_stream(): return True; else sleep and next attempt
CvReconnectOpen ==
  /\ CvOnly
  /\ cvPc = "open"
  /\ cvOpens < MaxOutageOpens
  /\ cvOpens' = cvOpens + 1
  /\ cvCap' = OpenStream
  /\ IF OpenStream = "open"
       THEN cvPc' = "top" /\ UNCHANGED cvAttempt
       ELSE cvPc' = "for" /\ cvAttempt' = cvAttempt + 1
  /\ UNCHANGED <<cvPhase, cvRunning, cvFrom, cvStreamUp>>

\* time.sleep(self.RECONNECT_DELAY); continue
CvRetrySleep ==
  /\ CvOnly
  /\ cvPc = "retry_sleep"
  /\ cvPc' = "top"
  /\ UNCHANGED <<cvPhase, cvRunning, cvCap, cvFrom, cvAttempt, cvStreamUp, cvOpens>>

\* stop(): self._running = False; join(timeout=2.0)
CvStop ==
  /\ CvOnly
  /\ cvPhase = "running"
  /\ cvPhase' = "stopping"
  /\ cvRunning' = FALSE
  /\ UNCHANGED <<cvCap, cvPc, cvFrom, cvAttempt, cvStreamUp, cvOpens>>

\* stop(): _close_stream() after the join returned or timed out
CvStopClose ==
  /\ CvOnly
  /\ cvPhase = "stopping"
  /\ cvPhase' = "stopped"
  /\ cvCap' = "none"
  /\ UNCHANGED <<cvRunning, cvPc, cvFrom, cvAttempt, cvStreamUp, cvOpens>>

\* the drone's stream becomes available or unavailable; an outage begins or
\* ends, and the count of reopen attempts starts again
CvStreamChanges ==
  /\ CvOnly
  /\ cvStreamUp' = ~cvStreamUp
  /\ cvOpens' = 0
  /\ UNCHANGED <<cvPhase, cvRunning, cvCap, cvPc, cvFrom, cvAttempt>>

NextCv ==
  \/ CvStart
  \/ CvLoopTop
  \/ CvRead
  \/ CvReconnectClose
  \/ CvReconnectFor
  \/ CvReconnectOpen
  \/ CvRetrySleep
  \/ CvStop
  \/ CvStopClose
  \/ CvStreamChanges

---------------------------------------------------------------------------
\* Family C: build_control_packet in the control thread, one attribute read
\* or write per step, against the setters called from the request handlers.

\* the order in which _build_flags reads the flags
FlagReadOrder == <<"takeoff", "land", "stop", "flip", "headless", "calibration">>

\* the order in which build_control_packet clears them
FlagClearOrder == <<"takeoff", "land", "stop", "flip", "calibration">>

InitFc ==
  /\ fcFlags = {}
  /\ fcPc = "idle"
  /\ fcIdx = 0
  /\ fcAcc = {}
  /\ fcPkt = <<>>
  /\ fcBuilds = 0
  /\ fcCalls = 0
  /\ fcAtStart = {}
  /\ fcTouched = {}
  /\ fcArmed = {}
  /\ fcRepeat = FALSE
  /\ fcDue = {}

IdleFc == InitFc

fcGhost == <<fcAtStart, fcTouched, fcArmed, fcRepeat, fcDue>>

\* takeoff(), land(), emergency_stop(), flip(), calibrate_gyro():
\* self.<flag> = True
FcSetOneShot ==
  /\ FcOnly
  /\ fcCalls < MaxFlagCalls
  /\ \E n \in OneShotFlags :
       /\ fcFlags' = fcFlags \cup {n}
       /\ fcArmed' = fcArmed \cup {n}
       /\ fcTouched' = IF fcPc \in {"read", "clear"} THEN fcTouched \cup {n} ELSE fcTouched
  /\ fcCalls' = fcCalls + 1
  /\ UNCHANGED <<fcPc, fcIdx, fcAcc, fcPkt, fcBuilds, fcAtStart, fcRepeat, fcDue>>

\* toggle_headless(): self.headless_flag = not self.headless_flag
FcToggleHeadless ==
  /\ FcOnly
  /\ fcCalls < MaxFlagCalls
  /\ fcFlags' = IF "headless" \in fcFlags THEN fcFlags \ {"headless"}
                                          ELSE fcFlags \cup {"headless"}
  /\ fcTouched' = IF fcPc \in {"read", "clear"} THEN fcTouched \cup {"headless"} ELSE fcTouched
  /\ fcCalls' = fcCalls + 1
  /\ UNCHANGED <<fcPc, fcIdx, fcAcc, fcPkt, fcBuilds, fcAtStart, fcArmed, fcRepeat, fcDue>>

\* build_control_packet is entered; _build_flags starts with flags = 0
FcBuildBegin ==
  /\ FcOnly
  /\ fcPc = "idle"
  /\ fcBuilds < MaxFlagBuilds
  /\ fcBuilds' = fcBuilds + 1
  /\ fcPc' = "read"
  /\ fcIdx' = 1
  /\ fcAcc' = {}
  /\ fcAtStart' = fcFlags
  /\ fcTouched' = {}
  /\ fcDue' = fcArmed
  /\ UNCHANGED <<fcFlags, fcPkt, fcCalls, fcArmed, fcRepeat>>

\* if model.<flag>: flags |= self.FLAG_<...>; after the last one the packet
\* bytes are final
FcReadFlag ==
  /\ FcOnly
  /\ fcPc = "read"
  /\ LET n == FlagReadOrder[fcIdx]
         acc == IF n \in fcFlags THEN fcAcc \cup {n} ELSE fcAcc
     IN /\ fcAcc' = acc
        /\ IF fcIdx < Len(FlagReadOrder)
             THEN fcIdx' = fcIdx + 1 /\ UNCHANGED <<fcPc, fcPkt>>
             ELSE /\ fcIdx' = 1
                  /\ fcPc' = "clear"
                  /\ fcPkt' = CooingdvBuildControlPacket(EncDefaults("C"), acc)
        /\ fcArmed' = IF n \in fcFlags THEN fcArmed \ {n} ELSE fcArmed
        /\ fcRepeat' = (fcRepeat \/ (n \in fcFlags /\ n \in OneShotFlags /\ n \notin fcArmed))
  /\ UNCHANGED <<fcFlags, fcBuilds, fcCalls, fcAtStart, fcTouched, fcDue>>

\* drone_model.<flag> = False for the five one-shot flags, in turn
FcClearFlag ==
  /\ FcOnly
  /\ fcPc = "clear"
  /\ fcFlags' = fcFlags \ {FlagClearOrder[fcIdx]}
  /\ IF fcIdx < Len(FlagClearOrder)
       THEN fcIdx' = fcIdx + 1 /\ UNCHANGED fcPc
       ELSE fcIdx' = 0 /\ fcPc' = "done"
  /\ UNCHANGED <<fcAcc, fcPkt, fcBuilds, fcCalls, fcGhost>>

\* return bytes(pkt): the packet goes out and the loop sleeps
FcReturn ==
  /\ FcOnly
  /\ fcPc = "done"
  /\ fcPc' = "idle"
  /\ UNCHANGED <<fcFlags, fcIdx, fcAcc, fcPkt, fcBuilds, fcCalls, fcGhost>>

NextFc ==
  \/ FcSetOneShot
  \/ FcToggleHeadless
  \/ FcBuildBegin
  \/ FcReadFlag
  \/ FcClearFlag
  \/ FcReturn

---------------------------------------------------------------------------
\* Family B RC adapter: set_socket (called by the video supervisor thread on
\* every adapter it constructs) against stop() (called on shutdown), one
\* statement per step.

VideoSockets == {"v1", "v2"}

\* __init__: self.sock = shared_sock or socket.socket(...);
\* self._is_shared_sock = shared_sock is not None
InitSk ==
  /\ \E s \in VideoSockets \cup {"own"} :
       /\ skSock = s
       /\ skIsShared = (s # "own")
  /\ skSetPc = "idle"
  /\ skArg = "none"
  /\ skStopPc = "idle"
  /\ skRcClosed = {}
  /\ skVideoClosed = {}
  /\ skCalls = 0
  /\ skOverlap = FALSE

IdleSk == InitSk /\ skSock = "own"

skSet == <<skSetPc, skArg>>

\* if self.sock and not self._is_shared_sock
ClosesOwn == ~skIsShared

\* set_socket(sock) is entered and its if is evaluated
SkSetBegin ==
  /\ SkOnly
  /\ skSetPc = "idle"
  /\ skCalls < MaxSockCalls
  /\ skCalls' = skCalls + 1
  /\ skOverlap' = (skOverlap \/ skStopPc # "idle")
  /\ \E s \in VideoSockets :
       /\ s \notin skVideoClosed
       /\ skArg' = s
  /\ skSetPc' = IF ClosesOwn THEN "close" ELSE "assign"
  /\ UNCHANGED <<skSock, skIsShared, skStopPc, skRcClosed, skVideoClosed>>

\* self.sock.close()
SkSetClose ==
  /\ SkOnly
  /\ skSetPc = "close"
  /\ skRcClosed' = skRcClosed \cup {skSock}
  /\ skSetPc' = "assign"
  /\ UNCHANGED <<skSock, skIsShared, skArg, skStopPc, skVideoClosed, skCalls, skOverlap>>

\* self.sock = sock
SkSetAssign ==
  /\ SkOnly
  /\ skSetPc = "assign"
  /\ skSock' = skArg
  /\ skSetPc' = "flag"
  /\ UNCHANGED <<skIsShared, skArg, skStopPc, skRcClosed, skVideoClosed, skCalls, skOverlap>>

\* self._is_shared_sock = True
SkSetFlag ==
  /\ SkOnly
  /\ skSetPc = "flag"
  /\ skIsShared' = TRUE
  /\ skSetPc' = "idle"
  /\ UNCHANGED <<skSock, skArg, skStopPc, skRcClosed, skVideoClosed, skCalls, skOverlap>>

\* stop() is entered: if self.sock and not self._is_shared_sock
SkStopBegin ==
  /\ SkOnly
  /\ skStopPc = "idle"
  /\ skCalls < MaxSockCalls
  /\ skCalls' = skCalls + 1
  /\ skOverlap' = (skOverlap \/ skSetPc # "idle")
  /\ skStopPc' = IF ClosesOwn THEN "close" ELSE "idle"
  /\ UNCHANGED <<skSock, skIsShared, skSet, skRcClosed, skVideoClosed>>

\* self.sock.close()
SkStopClose ==
  /\ SkOnly
  /\ skStopPc = "close"
  /\ skRcClosed' = skRcClosed \cup {skSock}
  /\ skStopPc' = "idle"
  /\ UNCHANGED <<skSock, skIsShared, skSet, skVideoClosed, skCalls, skOverlap>>

\* WifiUavVideoProtocolAdapter.stop(): self._sock.close() on its own socket
SkVideoStop ==
  /\ SkOnly
  /\ \E s \in VideoSockets \ skVideoClosed :
       skVideoClosed' = skVideoClosed \cup {s}
  /\ UNCHANGED <<skSock, skIsShared, skSet, skStopPc, skRcClosed, skCalls, skOverlap>>

NextSk ==
  \/ SkSetBegin
  \/ SkSetClose
  \/ SkSetAssign
  \/ SkSetFlag
  \/ SkStopBegin
  \/ SkStopClose
  \/ SkVideoStop

---------------------------------------------------------------------------
\* VideoReceiverService: start() and stop() called from one thread against
\* the receiver loop thread, one statement per step.  Adapters are numbered
\* in the order the loop constructs them.

InitSv ==
  /\ svRunning = FALSE
  /\ svPc = "none"
  /\ svProtocol = 0
  /\ svGen = 0
  /\ svStarted = {}
  /\ svStopped = {}
  /\ svUp = FALSE
  /\ svFid = 0
  /\ svFrags = 0
  /\ svStopPc = "idle"
  /\ svCalls = 0
  /\ svWanted = FALSE
  /\ svRaced = FALSE

IdleSv == InitSv

\* self._receiver_thread.is_alive()
ThreadAlive == svPc \notin {"none", "exited"}

svLoop == <<svPc, svProtocol, svGen, svStarted, svUp, svFid, svFrags>>
svCaller == <<svStopPc, svCalls, svWanted, svRaced>>

\* an adapter that takes the reassembly state of the one before it
CarriedState == [fid |-> svFid, frags |-> svFrags]

\* the adapter constructor: self._current_fid = 1; self._fragments = {}
FreshState == [fid |-> 1, frags |-> 0]

\* start(): return if the thread is alive; else set the flag and start one
SvStart ==
  /\ SvOnly
  /\ svStopPc = "idle"
  /\ svCalls < MaxSvcCalls
  /\ svCalls' = svCalls + 1
  /\ svWanted' = TRUE
  /\ IF ThreadAlive
       THEN UNCHANGED <<svRunning, svPc>>
       ELSE svRunning' = TRUE /\ svPc' = "top"
  /\ UNCHANGED <<svProtocol, svGen, svStarted, svStopped, svUp, svFid, svFrags, svStopPc, svRaced>>

\* stop(): self._running.clear()
SvStopClear ==
  /\ SvOnly
  /\ svStopPc = "idle"
  /\ svCalls < MaxSvcCalls
  /\ svCalls' = svCalls + 1
  /\ svWanted' = FALSE
  /\ svRunning' = FALSE
  /\ svStopPc' = "check"
  /\ UNCHANGED <<svLoop, svStopped, svRaced>>

\* stop(): if self.protocol:
SvStopCheck ==
  /\ SvOnly
  /\ svStopPc = "check"
  /\ svStopPc' = IF svProtocol # 0 THEN "call" ELSE "join"
  /\ svRaced' = (svRaced \/ (svProtocol = 0 /\ svPc = "construct"))
  /\ UNCHANGED <<svRunning, svLoop, svStopped, svCalls, svWanted>>

\* stop(): self.protocol.stop(); AttributeError if the loop has set
\* self.protocol to None since the test
SvStopCall ==
  /\ SvOnly
  /\ svStopPc = "call"
  /\ IF svProtocol # 0
       THEN /\ svStopped' = svStopped \cup {svProtocol}
            /\ svUp' = FALSE
            /\ svStopPc' = "join"
       ELSE /\ svStopPc' = "idle"
            /\ UNCHANGED <<svStopped, svUp>>
  /\ UNCHANGED <<svRunning, svPc, svProtocol, svGen, svStarted, svFid, svFrags, svCalls, svWanted, svRaced>>

\* stop(): self._receiver_thread.join(timeout=1.0) returns
SvStopJoin ==
  /\ SvOnly
  /\ svStopPc = "join"
  /\ svStopPc' = "idle"
  /\ UNCHANGED <<svRunning, svLoop, svStopped, svCalls, svWanted, svRaced>>

\* while self._running.is_set():
SvLoopTop ==
  /\ SvOnly
  /\ svPc = "top"
  /\ svPc' = IF svRunning THEN "construct" ELSE "exited"
  /\ UNCHANGED <<svRunning, svProtocol, svGen, svStarted, svStopped, svUp, svFid, svFrags, svCaller>>

\* self.protocol = self.protocol_adapter_class(**args), or the constructor
\* raises and the except clauses lead to finally
SvConstruct ==
  /\ SvOnly
  /\ svPc = "construct"
  /\ \/ /\ svGen < MaxAdapters
        /\ svGen' = svGen + 1
        /\ svProtocol' = svGen + 1
        /\ svFid' = FreshState.fid
        /\ svFrags' = FreshState.frags
        /\ svPc' = "start"
     \/ /\ svPc' = "finally"
        /\ UNCHANGED <<svGen, svProtocol, svFid, svFrags>>
  /\ UNCHANGED <<svRunning, svStarted, svStopped, svUp, svCaller>>

\* self.protocol.start(): the adapter's threads run unless it was stopped
SvProtocolStart ==
  /\ SvOnly
  /\ svPc = "start"
  /\ svStarted' = svStarted \cup {svProtocol}
  /\ svUp' = (svProtocol \notin svStopped)
  /\ svPc' = "loop"
  /\ UNCHANGED <<svRunning, svProtocol, svGen, svStopped, svFid, svFrags, svCaller>>

\* while self._running.is_set() and self.protocol.is_running(): get_frame
SvFrameLoop ==
  /\ SvOnly
  /\ svPc = "loop"
  /\ svPc' = IF svRunning /\ svUp THEN "loop" ELSE "finally"
  /\ UNCHANGED <<svRunning, svProtocol, svGen, svStarted, svStopped, svUp, svFid, svFrags, svCaller>>

\* finally: if self.protocol: self.protocol.stop()
SvFinallyStop ==
  /\ SvOnly
  /\ svPc = "finally"
  /\ IF svProtocol # 0
       THEN /\ svStopped' = svStopped \cup {svProtocol}
            /\ svUp' = FALSE
            /\ svPc' = "null"
       ELSE /\ svPc' = "delay"
            /\ UNCHANGED <<svStopped, svUp>>
  /\ UNCHANGED <<svRunning, svProtocol, svGen, svStarted, svFid, svFrags, svCaller>>

\* finally: self.protocol = None
SvFinallyNull ==
  /\ SvOnly
  /\ svPc = "null"
  /\ svProtocol' = 0
  /\ svPc' = "delay"
  /\ UNCHANGED <<svRunning, svGen, svStarted, svStopped, svUp, svFid, svFrags, svCaller>>

\* if self._running.is_set(): time.sleep(5)
SvDelay ==
  /\ SvOnly
  /\ svPc = "delay"
  /\ svPc' = IF svRunning THEN "sleep" ELSE "top"
  /\ UNCHANGED <<svRunning, svProtocol, svGen, svStarted, svStopped, svUp, svFid, svFrags, svCaller>>

\* the five seconds pass
SvWake ==
  /\ SvOnly
  /\ svPc = "sleep"
  /\ svPc' = "top"
  /\ UNCHANGED <<svRunning, svProtocol, svGen, svStarted, svStopped, svUp, svFid, svFrags, svCaller>>

SvLoopStep ==
  \/ SvLoopTop
  \/ SvConstruct
  \/ SvProtocolStart
  \/ SvFrameLoop
  \/ SvFinallyStop
  \/ SvFinallyNull
  \/ SvDelay
  \/ SvWake

\* the running adapter stores a fragment, or completes a frame and moves on
SvAdapterReceives ==
  /\ SvOnly
  /\ svUp
  /\ \/ svFrags = 0 /\ svFrags' = 1 /\ UNCHANGED svFid
     \/ svFrags = 1 /\ svFid < MaxSvFid /\ svFrags' = 0 /\ svFid' = svFid + 1
  /\ UNCHANGED <<svRunning, svPc, svProtocol, svGen, svStarted, svStopped, svUp, svCaller>>

\* the adapter's receive thread ends: the link is gone
SvLinkLost ==
  /\ SvOnly
  /\ svUp
  /\ svUp' = FALSE
  /\ UNCHANGED <<svRunning, svPc, svProtocol, svGen, svStarted, svStopped, svFid, svFrags, svCaller>>

NextSv ==
  \/ SvStart
  \/ SvStopClear
  \/ SvStopCheck
  \/ SvStopCall
  \/ SvStopJoin
  \/ SvLoopStep
  \/ SvAdapterReceives
  \/ SvLinkLost

---------------------------------------------------------------------------
\* The web server's plugin endpoints and frontend web socket (all handlers
\* of one event loop, so each runs without interleaving with the others)
\* and the worker thread of the test_yaw plugin.

InitPg ==
  /\ pgPool = FALSE
  /\ pgRunning = FALSE
  /\ pgStopped = FALSE
  /\ pgThread = "none"
  /\ pgElapsed = FALSE
  /\ pgSource = "none"
  /\ pgFront = "none"
  /\ pgFrontRunning = FALSE
  /\ pgStarts = 0
  /\ pgMsgs = 0

IdlePg == InitPg

pgFrontend == <<pgFront, pgFrontRunning, pgMsgs>>

\* bool(plugin_manager and plugin_manager.running()): the keys of _pool
PluginRunning == pgPool

\* POST /plugins/test_yaw/start -> PluginManager.start: a new instance,
\* inst.start() (running = True, _on_start starts the worker), _pool[name]
PgStart ==
  /\ PgOnly
  /\ ~pgPool
  /\ pgStarts < MaxPluginStarts
  /\ pgStarts' = pgStarts + 1
  /\ pgPool' = TRUE
  /\ pgRunning' = TRUE
  /\ pgStopped' = FALSE
  /\ pgThread' = "run"
  /\ pgElapsed' = FALSE
  /\ UNCHANGED <<pgSource, pgFrontend>>

\* Plugin.stop(): return if _stopped; running = False; _stopped = True;
\* _on_stop sends zeros through set_axes (source "unknown")
PluginStop ==
  IF pgStopped
    THEN UNCHANGED <<pgRunning, pgStopped, pgSource>>
    ELSE /\ pgRunning' = FALSE
         /\ pgStopped' = TRUE
         /\ pgSource' = "unknown"

\* POST /plugins/test_yaw/stop -> PluginManager.stop: _pool.pop, inst.stop()
PgStop ==
  /\ PgOnly
  /\ pgPool
  /\ pgPool' = FALSE
  /\ PluginStop
  /\ UNCHANGED <<pgThread, pgElapsed, pgStarts, pgFrontend>>

\* TEST_YAW_DURATION_S pass
PgDuration ==
  /\ PgOnly
  /\ pgThread = "run"
  /\ ~pgElapsed
  /\ pgElapsed' = TRUE
  /\ UNCHANGED <<pgPool, pgRunning, pgStopped, pgThread, pgSource, pgStarts, pgFrontend>>

\* TestYawPlugin._run: while self.running; after the duration self.stop()
\* and return; else set_axes_from("test_yaw", ...)
PgRun ==
  /\ PgOnly
  /\ pgThread = "run"
  /\ IF ~pgRunning
       THEN /\ pgThread' = "done"
            /\ UNCHANGED <<pgRunning, pgStopped, pgSource>>
       ELSE IF pgElapsed
         THEN /\ PluginStop
              /\ pgThread' = "done"
         ELSE /\ pgSource' = "test_yaw"
              /\ UNCHANGED <<pgRunning, pgStopped, pgThread>>
  /\ UNCHANGED <<pgPool, pgElapsed, pgStarts, pgFrontend>>

\* ws_endpoint, msg_type == "axes": ignored if plugin_running, else
\* flight_controller.set_axes_from("frontend", ...)
PgFrontendAxes ==
  /\ PgOnly
  /\ pgMsgs < MaxAxesMsgs
  /\ pgMsgs' = pgMsgs + 1
  /\ pgFrontRunning' = pgRunning
  /\ IF PluginRunning
       THEN pgFront' = "ignored" /\ UNCHANGED pgSource
       ELSE pgFront' = "applied" /\ pgSource' = "frontend"
  /\ UNCHANGED <<pgPool, pgRunning, pgStopped, pgThread, pgElapsed, pgStarts>>

NextPg ==
  \/ PgStart
  \/ PgStop
  \/ PgDuration
  \/ PgRun
  \/ PgFrontendAxes

---------------------------------------------------------------------------
\* The control loop running against callers of the one-shot setters.
Init == InitCtl /\ InitQ /\ IdleStick /\ IdleSup /\ InitVid /\ IdleAsm /\ IdleWk /\ IdleSh /\ IdleEnc /\ IdleEb /\ IdleSat /\ IdleRq /\ IdleRb /\ IdleHb /\ IdleCv /\ IdleFc /\ IdleSk /\ IdleSv /\ IdlePg

Next == Setter \/ LoopStep

Spec == Init /\ [][Next]_vars

\* The control loop running against callers of set_axes_from / set_axes.
NextAxes == SetAxesFromCall \/ SetAxesFromStore \/ LoopStep

SpecAxes == Init /\ [][NextAxes]_vars

\* The control loop running against callers of all three axis entry points.
NextDirs == SetAxesFromCall \/ SetAxesFromStore \/ SetControlDirection \/ LoopStep

SpecDirs == Init /\ [][NextDirs]_vars

\* Producers and a consumer on one DroppingQueue.
SpecQueue == Init /\ [][NextQ]_vars

\* The stick model under update, set_strategy, set_profile, set_sensitivity.
StickInit == InitCtl /\ InitQ /\ InitStick /\ IdleSup /\ InitVid /\ IdleAsm /\ IdleWk /\ IdleSh /\ IdleEnc /\ IdleEb /\ IdleSat /\ IdleRq /\ IdleRb /\ IdleHb /\ IdleCv /\ IdleFc /\ IdleSk /\ IdleSv /\ IdlePg

SpecStick == StickInit /\ [][NextStick]_vars

\* The Incremental strategy ticking with every direction 0; the control loop
\* calls model.update on every iteration, so the tick is weakly fair.
DecayInit == InitCtl /\ InitQ /\ InitDecay /\ IdleSup /\ InitVid /\ IdleAsm /\ IdleWk /\ IdleSh /\ IdleEnc /\ IdleEb /\ IdleSat /\ IdleRq /\ IdleRb /\ IdleHb /\ IdleCv /\ IdleFc /\ IdleSk /\ IdleSv /\ IdlePg

\* The video supervisor, its adapter, the link and the RC sender.  The
\* supervisor thread and the clock always get to run; datagrams, socket
\* errors, service stop and RC sends are up to the environment.
SupInit == InitCtl /\ InitQ /\ IdleStick /\ InitSup /\ InitVid /\ IdleAsm /\ IdleWk /\ IdleSh /\ IdleEnc /\ IdleEb /\ IdleSat /\ IdleRq /\ IdleRb /\ IdleHb /\ IdleCv /\ IdleFc /\ IdleSk /\ IdleSv /\ IdlePg

SpecSup == SupInit /\ [][NextSup]_vars /\ WF_vars(ReceiverLoop) /\ WF_vars(ClockTick)

\* One family B video adapter: its receive thread, its watchdog and the
\* supervisor taking frames off its queue.
SpecVideoB == Init /\ [][NextVid]_vars

\* One reassembler fed with fragments, byte by byte.
AsmInit == InitCtl /\ InitQ /\ IdleStick /\ IdleSup /\ InitVid /\ InitAsm /\ IdleWk /\ IdleSh /\ IdleEnc /\ IdleEb /\ IdleSat /\ IdleRq /\ IdleRb /\ IdleHb /\ IdleCv /\ IdleFc /\ IdleSk /\ IdleSv /\ IdlePg

SpecAsm == AsmInit /\ [][NextAsm]_vars

SpecDecay == DecayInit /\ [][NextDecay]_vars /\ WF_vars(DecayTick)

\* One video adapter's threads: every live thread gets to run, so a thread
\* whose loop condition is false leaves its loop and the warm-up loop keeps
\* iterating while its condition is true.
WkInit == InitCtl /\ InitQ /\ IdleStick /\ IdleSup /\ InitVid /\ IdleAsm /\ InitWk /\ IdleSh /\ IdleEnc /\ IdleEb /\ IdleSat /\ IdleRq /\ IdleRb /\ IdleHb /\ IdleCv /\ IdleFc /\ IdleSk /\ IdleSv /\ IdlePg

SpecWorkers ==
  WkInit /\ [][NextWk]_vars /\ WF_vars(WkThreadExit) /\ WF_vars(WkWarmupIteration)

\* One session being shut down.
ShInit == InitCtl /\ InitQ /\ IdleStick /\ IdleSup /\ InitVid /\ IdleAsm /\ IdleWk /\ InitSh /\ IdleEnc /\ IdleEb /\ IdleSat /\ IdleRq /\ IdleRb /\ IdleHb /\ IdleCv /\ IdleFc /\ IdleSk /\ IdleSv /\ IdlePg

SpecShutdown == ShInit /\ [][NextSh]_vars

\* One encoder and the model it reads.
EncInit == InitCtl /\ InitQ /\ IdleStick /\ IdleSup /\ InitVid /\ IdleAsm /\ IdleWk /\ IdleSh /\ InitEnc /\ IdleEb /\ IdleSat /\ IdleRq /\ IdleRb /\ IdleHb /\ IdleCv /\ IdleFc /\ IdleSk /\ IdleSv /\ IdlePg

SpecEnc == EncInit /\ [][NextEnc]_vars

\* The family B encoder under the control loop and the flag setters.
EbInit == InitCtl /\ InitQ /\ IdleStick /\ IdleSup /\ InitVid /\ IdleAsm /\ IdleWk /\ IdleSh /\ IdleEnc /\ InitEb /\ IdleSat /\ IdleRq /\ IdleRb /\ IdleHb /\ IdleCv /\ IdleFc /\ IdleSk /\ IdleSv /\ IdlePg

SpecEncB == EbInit /\ [][NextEb]_vars

\* Each encoder applied to one axis attribute, in range or out of it.
SatInit == InitCtl /\ InitQ /\ IdleStick /\ IdleSup /\ InitVid /\ IdleAsm /\ IdleWk /\ IdleSh /\ IdleEnc /\ IdleEb /\ InitSat /\ IdleRq /\ IdleRb /\ IdleHb /\ IdleCv /\ IdleFc /\ IdleSk /\ IdleSv /\ IdlePg

SpecSat == SatInit /\ [][NextSat]_vars

\* The family B adapter's receive thread and watchdog, with the datagrams they send.
RqInit == InitCtl /\ InitQ /\ IdleStick /\ IdleSup /\ InitVid /\ IdleAsm /\ IdleWk /\ IdleSh /\ IdleEnc /\ IdleEb /\ IdleSat /\ InitRq /\ IdleRb /\ IdleHb /\ IdleCv /\ IdleFc /\ IdleSk /\ IdleSv /\ IdlePg

SpecReqB == RqInit /\ [][NextRq]_vars

\* The family B receive thread and watchdog, statement by statement.
RbInit == InitCtl /\ InitQ /\ IdleStick /\ IdleSup /\ InitVid /\ IdleAsm /\ IdleWk /\ IdleSh /\ IdleEnc /\ IdleEb /\ IdleSat /\ IdleRq /\ InitRb /\ IdleHb /\ IdleCv /\ IdleFc /\ IdleSk /\ IdleSv /\ IdlePg

SpecRaceB == RbInit /\ [][NextRb]_vars

\* One video adapter, family A or family B, fed well-formed and malformed datagrams.
NextMalformed == S2xIngestChunk \/ (asmKind = "adapterB" /\ NextRq)

MalformedInit == InitCtl /\ InitQ /\ IdleStick /\ IdleSup /\ InitVid /\ InitAsm /\ IdleWk /\ IdleSh /\ IdleEnc /\ IdleEb /\ IdleSat /\ InitRq /\ IdleRb /\ IdleHb /\ IdleCv /\ IdleFc /\ IdleSk /\ IdleSv /\ IdlePg

SpecMalformed == MalformedInit /\ [][NextMalformed]_vars

\* The family C RC adapter with its heartbeat thread; the thread is scheduled fairly.
HbInit == InitCtl /\ InitQ /\ IdleStick /\ IdleSup /\ InitVid /\ IdleAsm /\ IdleWk /\ IdleSh /\ IdleEnc /\ IdleEb /\ IdleSat /\ IdleRq /\ IdleRb /\ InitHb /\ IdleCv /\ IdleFc /\ IdleSk /\ IdleSv /\ IdlePg

SpecHeartbeat == HbInit /\ [][NextHb]_vars /\ WF_vars(HbThreadStep)

\* Family C video transport reconnecting to its stream.
CvInit == InitCtl /\ InitQ /\ IdleStick /\ IdleSup /\ InitVid /\ IdleAsm /\ IdleWk /\ IdleSh /\ IdleEnc /\ IdleEb /\ IdleSat /\ IdleRq /\ IdleRb /\ IdleHb /\ InitCv /\ IdleFc /\ IdleSk /\ IdleSv /\ IdlePg

SpecReconnect == CvInit /\ [][NextCv]_vars

\* Family C encoder in the control thread against the setters.
FcInit == InitCtl /\ InitQ /\ IdleStick /\ IdleSup /\ InitVid /\ IdleAsm /\ IdleWk /\ IdleSh /\ IdleEnc /\ IdleEb /\ IdleSat /\ IdleRq /\ IdleRb /\ IdleHb /\ IdleCv /\ InitFc /\ IdleSk /\ IdleSv /\ IdlePg

SpecFlagsC == FcInit /\ [][NextFc]_vars

\* Family B RC adapter's socket between set_socket and stop.
SkInit == InitCtl /\ InitQ /\ IdleStick /\ IdleSup /\ InitVid /\ IdleAsm /\ IdleWk /\ IdleSh /\ IdleEnc /\ IdleEb /\ IdleSat /\ IdleRq /\ IdleRb /\ IdleHb /\ IdleCv /\ IdleFc /\ InitSk /\ IdleSv /\ IdlePg

SpecRcSocket == SkInit /\ [][NextSk]_vars

\* VideoReceiverService started, stopped and restarted; the loop thread and
\* the caller inside stop() are scheduled fairly.
SvInit == InitCtl /\ InitQ /\ IdleStick /\ IdleSup /\ InitVid /\ IdleAsm /\ IdleWk /\ IdleSh /\ IdleEnc /\ IdleEb /\ IdleSat /\ IdleRq /\ IdleRb /\ IdleHb /\ IdleCv /\ IdleFc /\ IdleSk /\ InitSv /\ IdlePg

SpecService == SvInit /\ [][NextSv]_vars /\ WF_vars(SvLoopStep)

\* Plugins against frontend axis input.
PgInit == InitCtl /\ InitQ /\ IdleStick /\ IdleSup /\ InitVid /\ IdleAsm /\ IdleWk /\ IdleSh /\ IdleEnc /\ IdleEb /\ IdleSat /\ IdleRq /\ IdleRb /\ IdleHb /\ IdleCv /\ IdleFc /\ IdleSk /\ IdleSv /\ InitPg

SpecPlugins == PgInit /\ [][NextPg]_vars

---------------------------------------------------------------------------
(***************************************************************************)
(* C1: a one-shot setter call followed by at least one complete tick of    *)
(* the control loop puts the flag's bit in exactly one built packet: the   *)
(* call is neither lost nor emitted twice.                                 *)
(***************************************************************************)
C1_SetterEmittedOnce ==
  \A f \in Setters :
    (setCalls[f] = 1 /\ fullTicks[f] >= 1) => emitted[f] = 1

(***************************************************************************)
(* C2: the four stick inputs that a tick passes to model.update were all   *)
(* written by the same set_axes_from call (or are all the initial ones).   *)
(***************************************************************************)
C2_SnapshotFromOneWriter ==
  \A a, b \in AxisNames : updArgs[a].by = updArgs[b].by

(***************************************************************************)
(* C3: put never needs the queue to have room: evicting the oldest item    *)
(* and enqueueing the new one happen inside one critical section that only *)
(* one thread occupies, so the queue never holds more than maxsize items   *)
(* when put enqueues (the condition under which queue.Queue.put would      *)
(* block or raise Full never arises).                                      *)
(***************************************************************************)
C3_PutNeverOverfills ==
  /\ Len(q) <= QMaxSize
  /\ \A p \in Producers : prodPc[p] = "put" => Len(q) < QMaxSize
  /\ \A p \in Producers : prodPc[p] # "idle" => mutex = p

\* A producer about to evict from a full queue, after the other producer
\* and the consumer have used the queue and an earlier put already evicted.
C3_Witness ==
  \E p, r \in Producers :
    /\ p # r
    /\ prodPc[p] = "check"
    /\ IsFull(q)
    /\ prodItem[r] > 0
    /\ nPut > QMaxSize + 1
    /\ unfinished < nPut - 1

(***************************************************************************)
(* C4: after k >= maxsize put calls with no get in between, the queue      *)
(* holds exactly the last maxsize items put, and the get calls that follow *)
(* return them in insertion order.                                         *)
(***************************************************************************)
LastN(seq, n) == SubSeq(seq, Len(seq) - n + 1, Len(seq))

NoPutInProgress == \A p \in Producers : prodPc[p] = "idle"

C4_KeepsLastN ==
  (NoPutInProgress /\ Len(burst) >= QMaxSize) =>
     /\ drained \o q = LastN(burst, QMaxSize)
     /\ (drained = <<>> => Len(q) = QMaxSize)

C4_Witness ==
  /\ NoPutInProgress
  /\ Len(burst) > QMaxSize
  /\ Len(drained) = QMaxSize
  /\ q = <<>>

(***************************************************************************)
(* C5: after any sequence of update calls (dt >= 0, inputs in [-1,+1])     *)
(* interleaved with set_strategy, set_profile and set_sensitivity, every   *)
(* axis value lies in [range.min, range.max].                              *)
(***************************************************************************)
C5_AxesInRange ==
  \A a \in AxisNames : RMin(fam) <= axisVal[a] /\ axisVal[a] <= RMax(fam)

\* An axis driven up from the top of the range and one driven down from the
\* bottom, after the strategy was switched from Direct to Incremental.
C5_Witness ==
  /\ nTicks >= 2
  /\ strategy = "Incremental"
  /\ \E a, b \in AxisNames :
       /\ axisVal[a] = RMax(fam) /\ lastDir[a] > 0
       /\ axisVal[b] = RMin(fam) /\ lastDir[b] < 0

(***************************************************************************)
(* C6: under the Incremental strategy with direction 0 on every tick and   *)
(* dt > 0, every axis reaches exactly range.mid after finitely many ticks, *)
(* never crosses it on the way, and stays there.                           *)
(***************************************************************************)
AllAtMid == \A a \in AxisNames : axisVal[a] = RMid(fam)

NoOvershoot ==
  \A a \in AxisNames :
    /\ axisVal[a] >= RMid(fam) => (RMid(fam) <= axisVal'[a] /\ axisVal'[a] <= axisVal[a])
    /\ axisVal[a] <= RMid(fam) => (axisVal[a] <= axisVal'[a] /\ axisVal'[a] <= RMid(fam))
    /\ axisVal[a] = RMid(fam) => axisVal'[a] = RMid(fam)

C6_DecaysToMid == <>[]AllAtMid /\ [][NoOvershoot]_vars

\* Every axis is back at the centre, one having started at the top of the
\* range and one at the bottom.
C6_Witness ==
  /\ AllAtMid
  /\ nTicks >= 1
  /\ \E a, b \in AxisNames : startVal[a] = RMax(fam) /\ startVal[b] = RMin(fam)

(***************************************************************************)
(* C7: if the running video transport hears no datagram for longer than    *)
(* LINK_DEAD_TIMEOUT while the service is running, the supervisor stops    *)
(* that transport and constructs a new one: silence alone, with the        *)
(* receive thread alive, leads to a new adapter (or the service was        *)
(* stopped, or a datagram arrived after all).                              *)
(***************************************************************************)
LinkDead(g) ==
  /\ gen = g
  /\ svcRunning
  /\ TransportRunning
  /\ silence > LINK_DEAD_TIMEOUT

C7_SilenceLeadsToNewTransport ==
  \A g \in 1..(MaxGen - 1) :
    LinkDead(g) ~> (gen > g \/ ~svcRunning \/ silence <= LINK_DEAD_TIMEOUT)

(***************************************************************************)
(* C8: family B with the RC adapter registered: a running video transport  *)
(* has already handed its socket to the RC adapter, so a send made while   *)
(* a transport runs goes out on that transport's socket, and a send on a   *)
(* closed socket is dropped without raising.                               *)
(***************************************************************************)
C8_SharedSocketFollowsTransport ==
  vfam = "B" =>
    /\ TransportRunning => rcSock = protoSock
    /\ rcLast.live # 0 => (rcLast.sock = rcLast.live /\ rcLast.result = "sent")
    /\ rcLast.result # "raised"

\* A later transport is running, the last RC packet went out on its socket,
\* and a packet was dropped on the closed socket of the transport before it.
C8_Witness ==
  /\ vfam = "B"
  /\ gen >= 2
  /\ TransportRunning
  /\ \E old \in rcDrops : old >= 1 /\ old < protoSock
  /\ rcLast.result = "sent"
  /\ rcLast.sock = protoSock
  /\ rcLast.live = gen

(***************************************************************************)
(* C9: the family B reassembler emits a frame only when every fragment     *)
(* index 0..n-1 has been received, n-1 being the index carried by the      *)
(* last-fragment datagram: no emitted frame has a missing fragment.        *)
(***************************************************************************)
C9_EmittedFrameComplete ==
  lastFrame # NoFrame => lastFrame.frags = 0..lastFrame.lastIdx

(***************************************************************************)
(* C10: the frame ids handed to the consumer are strictly increasing       *)
(* modulo 2^16: no id is delivered twice or after a later one.             *)
(***************************************************************************)
SerialLess(a, b) == Wrap16(b - a) \in 1..(FidModulus \div 2 - 1)

C10_DeliveredIdsIncrease ==
  Len(delivered) = 2 => SerialLess(delivered[1], delivered[2])

(***************************************************************************)
(* C11: putting a completed frame on the adapter's queue never blocks the  *)
(* receive loop, and a frame the queue discards is the oldest undelivered  *)
(* one, never the frame just completed.                                    *)
(***************************************************************************)
C11_PutKeepsNewestWithoutBlocking ==
  /\ rxPc # "put_wait"
  /\ discarded # "newest"

(***************************************************************************)
(* C12: in every reassembler (S2xVideoModel.ingest_chunk, handle_payload   *)
(* of the family B adapter, WifiUavVideoModel.ingest_chunk) a fragment     *)
(* whose index is already stored for the frame being assembled leaves the  *)
(* stored payload in place: first arrival wins.                            *)
(***************************************************************************)
C12_FirstArrivalWins == asmDup # "replaced"

(***************************************************************************)
(* C13: every VideoFrame emitted by the family A and family B reassembly   *)
(* paths has data that begins with FF D8 and ends with FF D9.              *)
(***************************************************************************)
C13_FramesAreJpegFramed ==
  asmKind \in {"s2x", "adapterB"} =>
    (asmOut # NoData => StartsWith(asmOut.data, SOI) /\ EndsWith(asmOut.data, EOI))

\* Family A has emitted a frame cut out of the joined fragments.
C13_WitnessA ==
  /\ asmKind = "s2x"
  /\ asmOut = [id |-> 1, data |-> SOI \o EOI]
  /\ asmCur = 2

\* Family B has emitted a frame built from an empty fragment and a fragment
\* that itself carries EOI followed by SOI.
C13_WitnessB ==
  /\ asmKind = "adapterB"
  /\ asmOut # NoData
  /\ asmOut.data = JpegHeader \o EOI \o SOI \o EOI
  /\ nChunks = MaxChunks

C13_Witness == C13_WitnessA \/ C13_WitnessB

(***************************************************************************)
(* C14: for any frame id the family B watchdog issues at most MAX_RETRIES  *)
(* re-requests before it skips forward: between two changes of the         *)
(* expected frame id there are never more than MAX_RETRIES retries.        *)
(***************************************************************************)
C14_AtMostMaxRetriesPerFrame == fidRetries <= MAX_RETRIES

(***************************************************************************)
(* C15: after a video adapter's stop() has been called, every worker       *)
(* thread the adapter started eventually terminates, whatever state the    *)
(* adapter was in (also when no frame was ever received or delivered).     *)
(***************************************************************************)
C15_WorkersEndAfterStop == (wkPhase = "stopped") ~> (wkThreads = {})

(***************************************************************************)
(* C16: on every shutdown path the video receiver's stop() is called       *)
(* before the flight controller's stop(): when there is a video receiver,  *)
(* every controller stop in the log has a video stop before it.            *)
(***************************************************************************)
C16_VideoStoppedBeforeControl ==
  shVideo =>
    \A i \in 1..Len(shLog) :
      shLog[i] = "control" => \E j \in 1..(i - 1) : shLog[j] = "video"

(***************************************************************************)
(* C17: once FlightController.stop() has returned, the socket the RC       *)
(* adapter created itself is closed, for every family.                     *)
(***************************************************************************)
C17_OwnSocketClosedAfterStop == fcStopped => ~rcOwnOpen

(***************************************************************************)
(* C18: an exception raised by build_control_packet or send_control_packet *)
(* is absorbed: the control loop thread ends only when the running flag    *)
(* was cleared, and every iteration, also the one after an exception,      *)
(* builds and sends after model.update has run in that iteration.          *)
(***************************************************************************)
C18_LoopSurvivesExceptions ==
  /\ (clPc = "exited" => ~fcRunning)
  /\ (clPc \in {"build", "send"} => clFresh)

\* The iteration after one that raised has updated the model and reached send.
C18_Witness == clPrevRaised /\ clPc = "send" /\ clFresh /\ fcRunning

(***************************************************************************)
(* C19: every packet of the family A encoder is 20 bytes long, starts with *)
(* 0x66 and ends with 0x99, has bytes 8..17 zero and byte 18 equal to the  *)
(* XOR of bytes 2..17; built from a model at its defaults with only the    *)
(* takeoff flag set it is 66 14 80 80 80 80 01 0A 00 x10 0B 99.            *)
(***************************************************************************)
TakeoffAtDefaults == [axes |-> EncDefaults("A"), flags |-> {"takeoff"}, record |-> 0]

TakeoffPacketA == <<102, 20, 128, 128, 128, 128, 1, 10>> \o Zeros(10) \o <<11, 153>>

C19_FamilyAPacketFormat ==
  (encFam = "A" /\ encPkt # <<>>) =>
    /\ Len(encPkt) = 20
    /\ encPkt[1] = 102
    /\ encPkt[20] = 153
    /\ \A i \in 9..18 : encPkt[i] = 0
    /\ \A i \in 1..20 : encPkt[i] \in 0..255
    /\ encPkt[19] = XorBytes(SubSeq(encPkt, 3, 18))
    /\ (encFrom = TakeoffAtDefaults => encPkt = TakeoffPacketA)

\* A packet built from sticks off centre with a flag and the record bit set.
C19_Witness ==
  /\ encFam = "A"
  /\ encPkt # <<>>
  /\ encPkt[3] # 128
  /\ encPkt[19] # 0
  /\ encPkt[2] # encPkt[19]

\* The packet for takeoff at defaults.
C19_WitnessTakeoff == encFam = "A" /\ encFrom = TakeoffAtDefaults /\ encPkt = TakeoffPacketA

(***************************************************************************)
(* C20: every packet of the family C encoder is 9 bytes long, starts with  *)
(* 0x03 0x66 and ends with 0x99, and byte 7 is the XOR of bytes 2..6; with *)
(* no input since construction the packet is 03 66 80 80 80 80 00 00 99.   *)
(***************************************************************************)
FirstPacketC == <<3, 102, 128, 128, 128, 128, 0, 0, 153>>

C20_FamilyCPacketFormat ==
  (encFam = "C" /\ encPkt # <<>>) =>
    /\ Len(encPkt) = 9
    /\ encPkt[1] = 3
    /\ encPkt[2] = 102
    /\ encPkt[9] = 153
    /\ \A i \in 1..9 : encPkt[i] \in 0..255
    /\ encPkt[8] = XorBytes(SubSeq(encPkt, 3, 7))
    /\ (encInputs = 0 => encPkt = FirstPacketC)

\* A packet whose XOR and sum of bytes 2..6 differ, built after two inputs.
C20_Witness ==
  /\ encFam = "C"
  /\ encPkt # <<>>
  /\ encInputs = MaxEncInputs
  /\ encPkt[8] # SumBytes(SubSeq(encPkt, 3, 7))
  /\ encPkt[7] # 0

(***************************************************************************)
(* C21: every control packet built by the family B encoder is exactly 128  *)
(* bytes long.                                                             *)
(***************************************************************************)
C21_FamilyBPacketLength == ebPkt # <<>> => Len(ebPkt) = 128

(***************************************************************************)
(* C22: the family B counters start at 0, 1, 2 and, in the sequence of     *)
(* transmitted packets, each counter is the same counter of the packet     *)
(* transmitted before plus 1 modulo 2^16, also when a packet in between    *)
(* was built but not transmitted.                                          *)
(***************************************************************************)
C22_CountersAdvanceByOnePerEmitted ==
  /\ (ebStart = 0 /\ ebBuilt = 1) => Decode(ebPkt).ctr = <<0, 1, 2>>
  /\ \A i \in 2..Len(ebEmitted) : \A k \in 1..3 :
       ebEmitted[i].ctr[k] = (ebEmitted[i - 1].ctr[k] + 1) % CtrModulus

(***************************************************************************)
(* C25: a one-shot flag is never consumed by a packet that was not         *)
(* transmitted: no build whose packet the send dropped has cleared a flag. *)
(***************************************************************************)
C25_FlagNotLostWithDroppedPacket == ebLost = {}

(***************************************************************************)
(* C26: when several family B one-shot flags are set before the same tick, *)
(* none is cleared without having determined the command byte of a packet. *)
(***************************************************************************)
C26_EveryFlagConveyed == ebUnconveyed = {}

\* C23: whatever the axis entry points (set_axes, set_axes_from,
\* set_control_direction) were called with, each stored direction, and each
\* direction the control loop passes to model.update, lies in [-1, +1].
C23_StoredDirectionsInUnitRange ==
  \A a \in AxisNames :
    /\ dirs[a].val \in -1000..1000
    /\ updArgs[a].val \in -1000..1000

(***************************************************************************)
(* C24: the axis byte an encoder writes is the integer it derived from the *)
(* model's axis attribute saturated to 0..255, for every family and every  *)
(* attribute value, below 0 and above 255 included.                        *)
(***************************************************************************)
C24_AxisByteSaturates ==
  satByte # -1 => satByte = Saturate(AxisInt(satFam, satRaw))

\* The same for the family C encoder alone.
C24_FamilyCSaturates ==
  (satByte # -1 /\ satFam = "C") => satByte = Saturate(AxisInt(satFam, satRaw))

\* The same for attribute values whose integer lies in 0..255.
C24_InRangeByteExact ==
  (satByte # -1 /\ AxisInt(satFam, satRaw) \in 0..255)
    => satByte = AxisInt(satFam, satRaw)

\* The stored slice ids are contiguous and the joined slices hold an SOI
\* before the last EOI.
Framed(f) ==
  LET keys == StoredKeys(f)
      data == JoinKeys(f, keys)
  IN /\ keys # {}
     /\ keys = SetMin(keys)..SetMax(keys)
     /\ Find(data, SOI) >= 0
     /\ RFind(data, EOI) > Find(data, SOI)

\* An interior slice id is missing from the stored ones.
Gapped(f) ==
  StoredKeys(f) # {} /\ StoredKeys(f) # SetMin(StoredKeys(f))..SetMax(StoredKeys(f))

\* The bytes of data from its first SOI through its last EOI
FirstSoiThroughLastEoi(data) ==
  SubSeq(data, Find(data, SOI) + 1, RFind(data, EOI) + 2)

\* The fragment map that holds the last ingested fragment and nothing else
OnlyNewFragment == [NoFrags EXCEPT ![asmIn'.k] = asmIn'.payload]

(***************************************************************************)
(* C27: family A reassembler.  A call of ingest_chunk returns a frame only *)
(* when the frame id changes; when the fragments stored for frame f are    *)
(* contiguous and hold an SOI before the last EOI, the first fragment of   *)
(* another id makes the call return the frame with id f and the bytes from *)
(* the first SOI through the last EOI, and leaves that fragment as the     *)
(* only stored one.                                                        *)
(***************************************************************************)
C27_FrameReturnedOnIdChange ==
  [][asmKind = "s2x" =>
       /\ (asmCur = -1 \/ asmCur' = asmCur) => asmRet' = NoData
       /\ (asmCur # -1 /\ asmCur' # asmCur /\ Framed(asmFrags)) =>
            /\ asmRet' = [id |-> asmCur,
                          data |-> FirstSoiThroughLastEoi(JoinKeys(asmFrags, StoredKeys(asmFrags)))]
            /\ asmFrags' = OnlyNewFragment]_vars

C27_Witness ==
  /\ asmKind = "s2x"
  /\ asmRet = [id |-> 1, data |-> SOI \o EOI]
  /\ asmCur = 2
  /\ asmIn.fid = 2
  /\ asmIn.payload = SOI
  /\ StoredKeys(asmFrags) = {asmIn.k}

(***************************************************************************)
(* C28: family A reassembler.  When the frame id changes while an interior *)
(* slice of the current frame is missing, no frame is returned, only the   *)
(* new fragment stays stored, and frames_dropped grows by exactly 1.       *)
(***************************************************************************)
C28_GapCountsOneDrop ==
  [][(asmKind = "s2x" /\ asmCur # -1 /\ asmCur' # asmCur /\ Gapped(asmFrags)) =>
       /\ asmRet' = NoData
       /\ asmFrags' = OnlyNewFragment
       /\ asmDropped' = asmDropped + 1]_vars

\* The same without the counter: the frame is discarded and the state reset.
C28_GapFrameDiscarded ==
  [][(asmKind = "s2x" /\ asmCur # -1 /\ asmCur' # asmCur /\ Gapped(asmFrags)) =>
       /\ asmRet' = NoData
       /\ asmOut' = asmOut
       /\ asmFrags' = OnlyNewFragment]_vars

\* The request template A with k, low byte first, at bytes 12-13
ExpectedA(k) ==
  [i \in 1..Len(REQUEST_A) |->
     IF i = 13 THEN k % 256 ELSE IF i = 14 THEN k \div 256 ELSE REQUEST_A[i]]

\* The request template B with k, low byte first, at bytes 12-13, 88-89, 107-108
ExpectedB(k) ==
  [i \in 1..Len(REQUEST_B) |->
     IF i \in {13, 89, 108} THEN k % 256
     ELSE IF i \in {14, 90, 109} THEN k \div 256
     ELSE REQUEST_B[i]]

(***************************************************************************)
(* C29: when handle_payload completes frame k it sends exactly two         *)
(* datagrams, REQUEST_A and REQUEST_B with k little-endian at their        *)
(* offsets, in that order, and the adapter then expects frame id           *)
(* (k + 1) mod 2^16.                                                       *)
(***************************************************************************)
C29_CompletionRequestsNextFrame ==
  rqRet # -1 =>
    /\ rqSent = <<ExpectedA(rqRet), ExpectedB(rqRet)>>
    /\ rqFid = (rqRet + 1) % 65536

\* frame 0xFFFF completed: frame 0 is expected
C29_Witness ==
  /\ rqRet = 65535
  /\ rqFid = 0
  /\ Len(rqSent) = 2
  /\ rqSent[1][13] = 255
  /\ rqSent[2][109] = 255

\* frame 0x0001 completed after it was begun
C29_WitnessLowByte ==
  /\ rqRet = 1
  /\ rqFid = 2
  /\ rqSent[1][13] = 1
  /\ rqSent[1][14] = 0

C30_WitnessRetry ==
  /\ rqStep = "retry"
  /\ rqRetry = 1
  /\ rqFrags # {}

\* handle_payload has stored the fragment and not yet advanced the frame id
RxMidFrame == rbRxPc \in {"assemble", "retryFlag", "clearFlag", "clear", "advance"}

(***************************************************************************)
(* C31: handle_payload and the watchdog's timeout action exclude each      *)
(* other: while handle_payload is between storing a fragment and advancing *)
(* the frame id, the watchdog neither clears the fragments nor advances    *)
(* the expected frame id.                                                  *)
(***************************************************************************)
C31_WatchdogExcludedFromHandlePayload ==
  [][(RxMidFrame /\ rbRxPc' = rbRxPc) => (rbFrags' = rbFrags /\ rbFid' = rbFid)]_vars

\* The weaker statement that the two threads are never both inside.
C31_NeverBothInside == rbRxPc = "idle" \/ rbWdPc = "idle"

(***************************************************************************)
(* C40: under any interleaving of the receive thread and the watchdog,     *)
(* retry_successes <= retry_attempts, and frames_ok, frames_dropped,       *)
(* retry_attempts and retry_successes never decrease.                      *)
(***************************************************************************)
C40_CountersMonotone ==
  [][/\ rbSuccesses' <= rbAttempts'
     /\ rbOk' >= rbOk
     /\ rbDropped' >= rbDropped
     /\ rbAttempts' >= rbAttempts
     /\ rbSuccesses' >= rbSuccesses]_vars

\* The same without frames_dropped, the one counter both threads write.
C40_SingleWriterCountersMonotone ==
  [][/\ rbSuccesses' <= rbAttempts'
     /\ rbOk' >= rbOk
     /\ rbAttempts' >= rbAttempts
     /\ rbSuccesses' >= rbSuccesses]_vars

\* Family A: the datagram is no longer than the 8-byte header or does not
\* begin with 40 40.
MalformedA(hdr) == hdr.len <= 8 \/ hdr.sync # <<64, 64>>

\* Family B: the datagram is shorter than the 56-byte header or its byte 1 is
\* not 0x01.
MalformedB(hdr) == hdr.len < 56 \/ hdr.b1 # 1

(***************************************************************************)
(* C32: a malformed datagram has no effect.  Family A: frame id, stored    *)
(* fragments and the last frame handed on are unchanged and nothing is     *)
(* returned.  Family B: frame id, stored fragments, retry count and retry  *)
(* flag, the ok and drop counters, retry_attempts and both timestamps are  *)
(* unchanged, nothing is sent and nothing is returned.                     *)
(***************************************************************************)
C32_MalformedDatagramHasNoEffect ==
  [][/\ (asmKind = "s2x" /\ nChunks' # nChunks /\ MalformedA(asmHdr')) =>
          /\ asmCur' = asmCur
          /\ asmFrags' = asmFrags
          /\ asmOut' = asmOut
          /\ asmDropped' = asmDropped
          /\ asmRet' = NoData
     /\ (asmKind = "adapterB" /\ rqStep' = "rx" /\ rqSteps' # rqSteps /\ MalformedB(rqHdr')) =>
          /\ rqFid' = rqFid
          /\ rqFrags' = rqFrags
          /\ rqRetry' = rqRetry
          /\ rqHadRetry' = rqHadRetry
          /\ rqOk' = rqOk
          /\ rqDropped' = rqDropped
          /\ rqAttempts' = rqAttempts
          /\ rqRxTs' = rqRxTs
          /\ rqReqTs' = rqReqTs
          /\ rqSent' = <<>>
          /\ rqRet' = -1]_vars

\* family B: a malformed datagram arrived after a fragment was stored and the
\* watchdog had retried, and left all of it in place
C32_Witness ==
  /\ asmKind = "adapterB"
  /\ rqStep = "rx"
  /\ MalformedB(rqHdr)
  /\ rqHdr.len = 56
  /\ rqFrags # {}
  /\ rqRetry = 1
  /\ rqRxTs < rqReqTs
  /\ rqReqTs < rqSteps

\* family A: a datagram with a wrong prefix arrived while fragments were stored
C32_WitnessA ==
  /\ asmKind = "s2x"
  /\ asmHdr.sync # <<64, 64>>
  /\ asmHdr.len > 8
  /\ StoredKeys(asmFrags) # {}
  /\ asmCur # -1

\* family A: a datagram of header length arrived while fragments were stored
C32_WitnessShortA ==
  /\ asmKind = "s2x"
  /\ asmHdr = [len |-> 8, sync |-> <<64, 64>>]
  /\ StoredKeys(asmFrags) # {}

(***************************************************************************)
(* C33: from construction until stop() is called, another heartbeat is     *)
(* always handed to the socket, whatever the control loop does (not        *)
(* started, stopped, or with failing sends); after stop() has returned no  *)
(* heartbeat is handed to the socket.                                      *)
(***************************************************************************)
C33_HeartbeatUntilStop ==
  /\ \A b \in BOOLEAN :
       (hbPhase = "running" /\ hbBeat = b) ~> (hbPhase # "running" \/ hbBeat # b)
  /\ [](~hbLate)

\* heartbeats went on after the control loop had stopped with a failed send
C33_Witness ==
  /\ hbPhase = "running"
  /\ hbLoop = "stopped"
  /\ hbCtlSend = "failed"
  /\ hbBeats = MaxBeats

\* stop() has returned while the heartbeat thread was about to send
C33_WitnessStopped ==
  /\ hbPhase = "stopped"
  /\ hbPc = "send"

(***************************************************************************)
(* C34: after a family C stream failure the adapter makes at most          *)
(* MAX_RECONNECT_ATTEMPTS (10) reopen attempts for that outage: while it   *)
(* keeps running and the stream stays unavailable there is no 11th.        *)
(***************************************************************************)
C34_AtMostTenReopensPerOutage ==
  (cvRunning /\ ~cvStreamUp) => cvOpens <= MAX_RECONNECT_ATTEMPTS

\* one call of _reconnect() never makes more than ten attempts
C34_AtMostTenReopensPerCall ==
  cvAttempt <= MAX_RECONNECT_ATTEMPTS

C34_EleventhReopen ==
  cvRunning /\ ~cvStreamUp /\ cvPhase = "running" /\ cvOpens = MAX_RECONNECT_ATTEMPTS + 1

(***************************************************************************)
(* C35: family C.  Once toggle_headless() has turned headless on, bit 0x10 *)
(* is set in every packet until the next toggle_headless(); each other     *)
(* flag bit is set in only the one packet built after its setter; the      *)
(* flags byte is the OR of the bits of the flags set at build time.        *)
(***************************************************************************)
\* the flags byte of the packet the build returns
FcFlagsByte == fcPkt[7]

\* headless, untouched during the build, is in the packet exactly when on
C35_HeadlessPersists ==
  (fcPc = "done" /\ "headless" \notin fcTouched)
    => (("headless" \in fcAcc) <=> ("headless" \in fcAtStart))

\* a one-shot bit goes into a packet only for a setter call made since the
\* bit last went into one
C35_OneShotAtMostOnce == ~fcRepeat

\* a one-shot flag set before the build began, and read as set by no
\* earlier build, is carried by this packet
C35_OneShotInNextPacket ==
  (fcPc = "done") => fcDue \subseteq fcAcc

\* the flags byte is the OR of the bits of the flags read as set, and with
\* no setter call during the build those are the flags set when it began
C35_FlagsByteIsOr ==
  (fcPc = "done") =>
    /\ FcFlagsByte = FlagsByte(fcAcc)
    /\ (fcTouched = {}) => FcFlagsByte = FlagsByte(fcAtStart)

C35_HeadlessStickyOneShotsOnce ==
  /\ C35_HeadlessPersists
  /\ C35_OneShotAtMostOnce
  /\ C35_OneShotInNextPacket
  /\ C35_FlagsByteIsOr

C35_SetterLost ==
  fcPc = "done" /\ fcBuilds = 2 /\ "takeoff" \in fcDue /\ "takeoff" \notin fcAcc

(***************************************************************************)
(* C36: the family B RC transport never closes a socket it did not create: *)
(* over any set_socket() and stop() calls only the socket the RC adapter   *)
(* created itself is closed by it; a socket handed in is closed only by    *)
(* the video transport that owns it.                                       *)
(***************************************************************************)
C36_RcClosesOnlyOwnSocket == skRcClosed \subseteq {"own"}

\* with the calls one after the other, never overlapping, it holds
C36_SequentialCallsCloseOnlyOwn == (~skOverlap) => skRcClosed \subseteq {"own"}

C36_SharedSocketClosedByRc ==
  skRcClosed \cap VideoSockets # {} /\ skVideoClosed = {}

(***************************************************************************)
(* C37: the video supervisor keeps at most one transport instance alive:   *)
(* stop() has been called on every adapter but the current one, every      *)
(* adapter it constructs is eventually stopped, also when the service's    *)
(* stop() races with the construction, and a new adapter starts with fresh *)
(* reassembly state (frame id 1, no fragments).                            *)
(***************************************************************************)
C37_PreviousStoppedBeforeNext ==
  \A j \in 1..svGen : j = svProtocol \/ j \in svStopped

C37_NewAdapterIsFresh ==
  (svPc = "start") => (svFid = 1 /\ svFrags = 0)

C37_EveryAdapterStopped ==
  \A j \in 1..MaxAdapters :
    (svProtocol = j /\ (~svRunning \/ ~svUp) /\ svPc # "start") ~> (j \in svStopped)

C37_OneAdapterAtATime ==
  /\ [](C37_PreviousStoppedBeforeNext /\ C37_NewAdapterIsFresh)
  /\ C37_EveryAdapterStopped
  /\ \A j \in 1..MaxAdapters : (svProtocol = j /\ ~svRunning) ~> (j \in svStopped)

\* the second adapter was built after the first had received, and stop()
\* came while it was being constructed; it has been stopped all the same
C37_Witness ==
  svRaced /\ svGen = 2 /\ svStopped = {1, 2} /\ svPc = "exited"

C37_WitnessFresh ==
  svGen = 2 /\ svPc = "start" /\ svFid = 1 /\ svFrags = 0

(***************************************************************************)
(* C39: VideoReceiverService can be restarted: after stop() followed by    *)
(* start(), called at any time, a receiver loop is running with the        *)
(* running flag set and goes on to create and start an adapter.            *)
(***************************************************************************)
C39_RestartLeavesLoopRunning ==
  (svWanted /\ svStopPc = "idle") => (svRunning /\ ThreadAlive)

\* with the old loop thread gone before start() is called, it holds
C39_RestartAfterThreadExit ==
  [][(SvStart /\ ~ThreadAlive) => (svRunning' /\ svPc' = "top")]_vars

C39_RestartedButNotRunning ==
  svWanted /\ svStopPc = "idle" /\ ~svRunning /\ svPc = "exited" /\ svCalls = 3

(***************************************************************************)
(* C38: frontend axis input is suppressed exactly while a plugin is        *)
(* running: while one is running no frontend axes message reaches          *)
(* set_axes_from, and once none is running any more (also after a plugin   *)
(* stopped itself at the end of its duration) the messages are applied.    *)
(***************************************************************************)
\* a message that came while the plugin was running was not applied
C38_SuppressedWhileRunning ==
  (pgFront = "applied") => ~pgFrontRunning

\* a message that came while no plugin was running was applied
C38_AppliedWhenNotRunning ==
  (pgFront = "ignored") => pgFrontRunning

C38_FrontendSuppressedExactlyWhileRunning ==
  /\ C38_SuppressedWhileRunning
  /\ C38_AppliedWhenNotRunning

C38_IgnoredAfterSelfStop ==
  pgFront = "ignored" /\ ~pgFrontRunning /\ pgThread = "done" /\ pgStopped /\ pgPool

===========================================================================
